---- MODULE Spec2Model ----
(***************************************************************************)
(* Model of the lesson PDF export of medicalbydrtamara:                    *)
(*   - smartPaginate (src/utils/pdfUtils.ts), the pagination planner,      *)
(*     stepped one loop iteration at a time over the children of the       *)
(*     print clone;                                                        *)
(*   - generateAndSharePdf and the handleShare variants of LessonView,     *)
(*     stepped one await / statement group at a time.                      *)
(* Block heights are modelled as naturals (getBoundingClientRect().height  *)
(* is a non-negative number); the slicer's millimetre values are kept as   *)
(* exact fractions with denominator canvas.width.                          *)
(***************************************************************************)
EXTENDS Integers, Sequences, FiniteSets, TLC

\* ---------------------------------------------------------------- bounds
MaxBlocks == 3
MaxRuns == 2
HeightValues == {0, 1, 300, 400, 650, 800, 1050, 1051, 2100}
MaxTitleLen == 2
MaxExports == 2
MaxClock == 2
MaxOps == 2
MaxKey == 2
TitleChars == {"S", "r", " ", "-"}
\* canvas sizes <<width, height>> handed back by html2canvas
Canvases == {<<210, 1>>, <<210, 297>>, <<210, 298>>, <<210, 594>>, <<210, 891>>,
             <<1600, 2262>>, <<1600, 2263>>, <<1600, 15840>>, <<1600, 15841>>}
\* children heights of the print clone in the export runs
ExportLayouts == {<<400, 800, 300>>, <<300, 0, 2100>>}

\* ------------------------------------------------------ program constants
PAGE_HEIGHT == 1050
imgWidth == 210
pageHeight == 297

VARIABLES
  \* smartPaginate
  sections,       \* heights of element.children, in document order
  marginTop,      \* style.marginTop of each child, in px (0 = not set)
  i,              \* loop index (1-based)
  currentHeight,  \* running cursor
  ppc,            \* "idle" | "loop"
  run,            \* number of smartPaginate invocations on this element
  prevMargins,    \* marginTop as it was when the current invocation began
  log             \* one record per non-skipped block of the current invocation

pvars == <<sections, marginTop, i, currentHeight, ppc, run, prevMargins, log>>

VARIABLES
  \* LessonView / generateAndSharePdf
  variant,          \* which LessonView revision runs: "pdfUtils" | "highQuality" | "textPdf"
  title,            \* lesson.content.title, a sequence of characters
  containerPresent, \* document.getElementById(containerId) is non-null
  shareSupported,   \* navigator.share && navigator.canShare && canShare({files})
  platform,         \* argument of the textPdf handleShare
  epc,              \* position inside handleShare / generateAndSharePdf
  exports,          \* number of handleShare invocations so far
  liveSections,     \* heights of the children of the live lesson container
  liveMargins,      \* inline marginTop of the children of the live container
  previous,         \* what the preceding export of this lesson computed
  orphans,          \* exports still running whose LessonView was unmounted
  isGeneratingPdf,  \* React state of LessonView
  clonesAttached,   \* number of #print-clone elements under document.body
  canvas,           \* [width, height] of the html2canvas result
  heightLeft,       \* mm * canvas.width
  position,         \* mm * canvas.width
  pages,            \* pages of the jsPDF document
  addPageCalls,     \* doc.addPage() calls of this export
  addImageCalls,    \* doc.addImage() calls of this export
  offsets,          \* y argument of each doc.addImage() call, mm * canvas.width
  rasterCalls,      \* html2canvas() invocations of this export
  assemblyCalls,    \* jsPDF documents begun by this export
  fileName,         \* name of the File object
  savedName,        \* name handed to doc.save / a.download
  delivered,        \* "none" | "shared" | "downloaded"
  opened,           \* window.open channel of the textPdf revision
  shareCalls,       \* navigator.share() calls of this export
  saveCalls,        \* completed doc.save() / a.click() downloads of this export
  shareText,        \* text field handed to navigator.share
  failedStep,       \* step of this export that threw, "" if none
  threw,            \* generateAndSharePdf is unwinding with an exception
  alerts,           \* error alerts shown by this export
  notices           \* informational alerts shown by this export

envvars == <<variant, title, containerPresent, shareSupported, platform,
             exports, liveSections, liveMargins, previous, orphans>>

docvars == <<canvas, heightLeft, position, pages, addPageCalls, addImageCalls,
             offsets, rasterCalls, assemblyCalls>>

outvars == <<fileName, savedName, delivered, opened, notices, shareCalls,
             saveCalls, shareText>>

errvars == <<failedStep, threw, alerts>>

xvars == <<envvars, docvars, outvars, errvars, epc, isGeneratingPdf,
           clonesAttached>>

VARIABLES
  \* App (src/unnamed/part_001), Recorder and the lesson store
  appState,          \* React state of App: which screen is shown
  lessons,           \* React state: the list shown by Dashboard
  currentLesson,     \* React state: Lesson | null
  isGeneratingImage, \* React state
  dbError,           \* React state
  db,                \* records of the 'lessons' object store, in key order
  heap,              \* the images array of each in-memory lesson object
  apiKey,            \* process.env.API_KEY is set
  recorder,          \* MediaRecorder of the Recorder component
  gen,               \* handleRecordingComplete / handleImageCapture in flight
  img,               \* handleGenerateImage in flight
  upd,               \* handleUpdateLesson in flight
  del,               \* handleDeleteLesson in flight
  load,              \* the loadLessons call of the mount effect
  ops,               \* handler invocations so far
  clock,             \* Date.now() of the newest lesson created
  appAlerts          \* alert() calls of App

avars == <<appState, lessons, currentLesson, isGeneratingImage, dbError, db,
           heap, apiKey, recorder, gen, img, upd, del, load, ops, clock,
           appAlerts>>

VARIABLES
  \* calls of storageService on their own
  result,            \* what the last getAllLessonsFromDB resolved with
  lastOp,            \* the storageService function called last
  arg                \* its argument: the lesson saved or the id deleted

svars == <<result, lastOp, arg>>

evars == <<xvars, avars, svars>>

vars == <<pvars, evars>>

\* ------------------------------------------------------------- helpers
SeqsUpTo(S, n) == UNION {[1..k -> S] : k \in 0..n}

Zeros(n) == [k \in 1..n |-> 0]

\* ------------------------------------------------------------ App (data)
\* src/unnamed/part_001 is the App component: its React state, the handlers
\* it passes to Dashboard, Recorder, CameraCapture, LessonView and
\* AiTerminal, and the IndexedDB store behind storageService.ts. Every await
\* of a handler is a step boundary; the array held in lesson.images is an
\* object with identity (heap), because handleGenerateImage writes into it.
Fields == {"anatomy", "technique"}

Indexes == {0, 1}

Refs == 1..(MaxClock + 5)

EmptyImages == [k \in Indexes |-> ""]

GeneratedContent == [f \in Fields |-> "t0"]

NoContent == [f \in Fields |-> ""]

\* const [currentLesson, setCurrentLesson] = useState<Lesson | null>(null)
NoLesson == [id |-> 0, createdAt |-> 0, content |-> NoContent, images |-> 0,
             audio |-> FALSE]

\* a lesson as the structured clone kept by the object store: images by value
StoredLesson(id, content, images, audio) ==
  [id |-> id, createdAt |-> id, content |-> content, images |-> images,
   audio |-> audio]

\* the in-memory object of a stored lesson, its images array at heap ref r
ObjectOf(v, r) == [v EXCEPT !.images = r]

\* what store.put(lesson) clones: the images array read through the heap h
ValueOf(l, h) == [l EXCEPT !.images = h[l.images]]

\* ------------------------------------------------- storageService (pure)
RECURSIVE InsertByKey(_, _)
InsertByKey(store, v) ==
  IF store = <<>> THEN <<v>>
  ELSE IF Head(store).id < v.id THEN <<Head(store)>> \o InsertByKey(Tail(store), v)
       ELSE <<v>> \o store

RECURSIVE DeleteKey(_, _)
DeleteKey(store, id) ==
  IF store = <<>> THEN <<>>
  ELSE IF Head(store).id = id THEN DeleteKey(Tail(store), id)
       ELSE <<Head(store)>> \o DeleteKey(Tail(store), id)

PutAppend(store, v) == Append(store, v)

\* store.put(lesson) on an object store with keyPath 'id'
Put(store, v) == InsertByKey(DeleteKey(store, v.id), v)

\* store.delete(id)
Delete(store, id) == DeleteKey(store, id)

RECURSIVE InsertNewestFirst(_, _)
InsertNewestFirst(sorted, v) ==
  IF sorted = <<>> THEN <<v>>
  ELSE IF Head(sorted).createdAt >= v.createdAt
       THEN <<Head(sorted)>> \o InsertNewestFirst(Tail(sorted), v)
       ELSE <<v>> \o sorted

\* lessons.sort((a, b) => b.createdAt - a.createdAt), a stable sort
RECURSIVE SortNewestFirst(_)
SortNewestFirst(s) ==
  IF s = <<>> THEN <<>>
  ELSE InsertNewestFirst(SortNewestFirst(SubSeq(s, 1, Len(s) - 1)), s[Len(s)])

\* store.getAll() in key order, then the sort
GetAll(store) == SortNewestFirst(store)

\* ---------------------------------------------------------- heap helpers
LiveRefs(ls, cur, g, im, u) ==
  ({ls[k].images : k \in 1..Len(ls)}
     \cup {cur.images, g.lesson.images, im.lesson.images, u.lesson.images,
           u.base.images}) \ {0}

FreshRef(used) == CHOOSE r \in Refs \ used : \A s \in Refs \ used : r <= s

\* the objects getAllLessonsFromDB resolves with: one new object per record
RECURSIVE LoadObjects(_, _, _)
LoadObjects(vals, h, used) ==
  IF vals = <<>> THEN [objs |-> <<>>, heap |-> h]
  ELSE LET r == FreshRef(used)
           rest == LoadObjects(Tail(vals), [h EXCEPT ![r] = Head(vals).images],
                               used \cup {r})
       IN [objs |-> <<ObjectOf(Head(vals), r)>> \o rest.objs, heap |-> rest.heap]
\* ----------------------------------------------------------- App (state)
AppStates == {"DASHBOARD", "RECORDING", "GENERATING", "VIEWING", "CAMERA"}

NoRecorder == [state |-> "none", cause |-> ""]

GenIdle == [pc |-> "idle", kind |-> "", cause |-> "", lesson |-> NoLesson]

ImgIdle == [pc |-> "idle", lesson |-> NoLesson, index |-> 0,
            before |-> EmptyImages]

UpdIdle == [pc |-> "idle", origin |-> "", base |-> NoLesson, lesson |-> NoLesson,
            section |-> "", text |-> ""]

DelIdle == [pc |-> "idle", id |-> 0, closureId |-> 0, answer |-> FALSE]

\* lessons a previous session left in the store
InitialStores ==
  LET cover == [k \in Indexes |-> IF k = 0 THEN "data" ELSE ""]
  IN {<<>>,
      <<StoredLesson(1, GeneratedContent, cover, TRUE)>>}

\* stores to open a lesson from: one or two lessons saved by earlier sessions
LessonStores ==
  LET cover == [k \in Indexes |-> IF k = 0 THEN "data" ELSE ""]
  IN {<<StoredLesson(1, GeneratedContent, cover, TRUE)>>,
      <<StoredLesson(1, GeneratedContent, cover, TRUE),
        StoredLesson(2, GeneratedContent, EmptyImages, FALSE)>>}

\* the App as it is before anything happened, with an empty store
AppIdle ==
  /\ appState = "DASHBOARD"
  /\ lessons = <<>>
  /\ currentLesson = NoLesson
  /\ isGeneratingImage = FALSE
  /\ dbError = FALSE
  /\ heap = [r \in Refs |-> EmptyImages]
  /\ recorder = NoRecorder
  /\ gen = GenIdle
  /\ img = ImgIdle
  /\ upd = UpdIdle
  /\ del = DelIdle
  /\ ops = 0
  /\ appAlerts = 0

\* no call of storageService on its own yet
StoreIdle ==
  /\ result = <<>>
  /\ lastOp = ""
  /\ arg = 0

AppUnused ==
  /\ AppIdle
  /\ StoreIdle
  /\ apiKey = TRUE
  /\ db = <<>>
  /\ clock = 0
  /\ load = "done"

\* the recorder after setAppState(newState): leaving RECORDING unmounts
\* Recorder, whose effect cleanup stops a MediaRecorder that is recording
\* (the stop event is then delivered to onstop); a getUserMedia request still
\* pending belongs to the unmounted component and is dropped
RecorderAfter(newState, why) ==
  IF appState = "RECORDING" /\ newState /= "RECORDING"
  THEN IF recorder.state = "recording" THEN [state |-> "stopping", cause |-> why]
       ELSE IF recorder.state = "asking" THEN NoRecorder
       ELSE recorder
  ELSE recorder

\* the refs of the objects in use, in a fixed order of first occurrence
RECURSIVE Dedupe(_, _)
Dedupe(refs, seen) ==
  IF refs = <<>> THEN <<>>
  ELSE IF Head(refs) = 0 \/ Head(refs) \in seen THEN Dedupe(Tail(refs), seen)
       ELSE <<Head(refs)>> \o Dedupe(Tail(refs), seen \cup {Head(refs)})

RefOrder(ls, cur, g, im, u) ==
  Dedupe(<<cur.images>> \o [k \in 1..Len(ls) |-> ls[k].images]
           \o <<g.lesson.images, im.lesson.images, u.lesson.images,
                u.base.images>>, {})

\* the lessons list and heap as they are, for Commit
Kept == [objs |-> lessons, heap |-> heap]

\* the lessons list after refreshLessons: getAllLessonsFromDB resolved (ok)
\* and setLessons ran, or it rejected and the list stays
Reloaded(ok, cur, g, im, u) ==
  IF ok THEN LoadObjects(GetAll(db), heap, LiveRefs(<<>>, cur, g, im, u))
  ELSE Kept

\* the new values of the state that holds lesson objects; arrays nothing
\* refers to any more are dropped and the refs are renumbered in RefOrder
\* (an object's identity is not observable, only which objects share it)
Commit(l, cur, g, im, u) ==
  \E objs \in {l.objs}, h \in {l.heap} :
    \E order \in {RefOrder(objs, cur, g, im, u)} :
      \E ren \in {[r \in Refs \cup {0} |->
                     IF \E k \in 1..Len(order) : order[k] = r
                     THEN CHOOSE k \in 1..Len(order) : order[k] = r
                     ELSE 0]} :
        /\ lessons' = [k \in 1..Len(objs) |-> [objs[k] EXCEPT !.images = ren[@]]]
        /\ currentLesson' = [cur EXCEPT !.images = ren[@]]
        /\ gen' = [g EXCEPT !.lesson.images = ren[@]]
        /\ img' = [im EXCEPT !.lesson.images = ren[@]]
        /\ upd' = [u EXCEPT !.lesson.images = ren[@], !.base.images = ren[@]]
        /\ heap' = [k \in Refs |-> IF k <= Len(order) THEN h[order[k]]
                                   ELSE EmptyImages]

\* ------------------------------------------------- smartPaginate (pure)
StartPage(startY) == startY \div PAGE_HEIGHT

EndPageCeil(endY) == (endY + PAGE_HEIGHT - 1) \div PAGE_HEIGHT

EndPage(endY) == endY \div PAGE_HEIGHT

CrossesReversed(startY, endY) == StartPage(startY) > EndPage(endY)

Crosses(startY, endY) == StartPage(startY) /= EndPage(endY)

FitsOrEqual(sectionHeight) == sectionHeight <= PAGE_HEIGHT

FitsOnPage(sectionHeight) == sectionHeight < PAGE_HEIGHT

SpacerHeightCeil(startY, endY) == (EndPageCeil(endY) * PAGE_HEIGHT) - startY

\* const spacerHeight = (endPage * PAGE_HEIGHT) - startY;
SpacerHeight(startY, endY) == (EndPage(endY) * PAGE_HEIGHT) - startY

PushDownFirstPage(startY) == PAGE_HEIGHT - startY

PushDown(startY) == (StartPage(startY) + 1) * PAGE_HEIGHT - startY

IsSkippedNever(sectionHeight) == FALSE

\* if (sectionHeight === 0) continue;
IsSkipped(sectionHeight) == sectionHeight = 0

AccumulateMargin(old, pushDown) == old + pushDown

AssignMargin(old, pushDown) == pushDown

\* the branch at lines 120-130: is block pushed?
IsPushed(startY, sectionHeight) ==
  /\ Crosses(startY, startY + sectionHeight)
  /\ FitsOnPage(sectionHeight)

\* the margins smartPaginate computes for a list of non-zero heights, cursor
\* starting at the given value
RECURSIVE PaginateFrom(_, _)
PaginateFrom(heights, cursor) ==
  IF heights = <<>> THEN <<>>
  ELSE LET h == Head(heights)
           pushDown == IF IsPushed(cursor, h) THEN PushDown(cursor) ELSE 0
       IN <<pushDown>> \o PaginateFrom(Tail(heights), cursor + pushDown + h)

\* the cursor smartPaginate ends with for a list of non-zero heights
RECURSIVE CursorAfter(_, _)
CursorAfter(heights, cursor) ==
  IF heights = <<>> THEN cursor
  ELSE LET h == Head(heights)
           pushDown == IF IsPushed(cursor, h) THEN PushDown(cursor) ELSE 0
       IN CursorAfter(Tail(heights), cursor + pushDown + h)

\* ------------------------------------------------ smartPaginate (steps)
NoCanvas == [width |-> 0, height |-> 0]

NoPrevious == [paginated |-> FALSE, margins |-> <<>>, sliced |-> FALSE,
               canvas |-> NoCanvas, pages |-> 0]

ExportIdle ==
  /\ containerPresent = TRUE
  /\ shareSupported = FALSE
  /\ platform = "download"
  /\ epc = "idle"
  /\ exports = 0
  /\ isGeneratingPdf = FALSE
  /\ clonesAttached = 0
  /\ canvas = NoCanvas
  /\ heightLeft = 0
  /\ position = 0
  /\ pages = 0
  /\ addPageCalls = 0
  /\ addImageCalls = 0
  /\ offsets = <<>>
  /\ rasterCalls = 0
  /\ assemblyCalls = 0
  /\ shareCalls = 0
  /\ saveCalls = 0
  /\ shareText = <<>>
  /\ previous = NoPrevious
  /\ orphans = 0
  /\ fileName = <<>>
  /\ savedName = <<>>
  /\ delivered = "none"
  /\ opened = "none"
  /\ failedStep = ""
  /\ threw = FALSE
  /\ alerts = 0
  /\ notices = 0

InitPaginate ==
  /\ ExportIdle
  /\ AppUnused
  /\ variant = "pdfUtils"
  /\ title = <<"S">>
  /\ liveSections = <<>>
  /\ liveMargins = <<>>
  /\ sections \in SeqsUpTo(HeightValues, MaxBlocks)
  /\ marginTop = Zeros(Len(sections))
  /\ i = 1
  /\ currentHeight = 0
  /\ ppc = "idle"
  /\ run = 0
  /\ prevMargins = Zeros(Len(sections))
  /\ log = <<>>

\* const smartPaginate = (element) => { let currentHeight = 0; ... i = 0
SmartPaginateCall ==
  /\ ppc = "idle"
  /\ run < MaxRuns
  /\ ppc' = "loop"
  /\ run' = run + 1
  /\ i' = 1
  /\ currentHeight' = 0
  /\ prevMargins' = marginTop
  /\ log' = <<>>
  /\ UNCHANGED <<sections, marginTop>>

LoopIterationDoubleCount ==
  /\ ppc = "loop"
  /\ i <= Len(sections)
  /\ LET sectionHeight == sections[i]
         startY == currentHeight
         endY == currentHeight + sectionHeight
         pushed == IsPushed(startY, sectionHeight)
         pushDown == IF pushed THEN PushDown(startY) ELSE 0
     IN IF IsSkipped(sectionHeight)
        THEN UNCHANGED <<marginTop, currentHeight, log>>
        ELSE /\ marginTop' = IF pushed
                             THEN [marginTop EXCEPT ![i] = AssignMargin(@, pushDown)]
                             ELSE marginTop
             /\ currentHeight' = currentHeight + pushDown + pushDown + sectionHeight
             /\ log' = Append(log, [idx |-> i,
                                    height |-> sectionHeight,
                                    startY |-> startY,
                                    endY |-> endY,
                                    pushed |-> pushed,
                                    pushDown |-> pushDown,
                                    spacerHeight |-> SpacerHeight(startY, endY),
                                    placedY |-> currentHeight + pushDown,
                                    after |-> currentHeight + pushDown + pushDown
                                              + sectionHeight])
  /\ i' = i + 1
  /\ UNCHANGED <<sections, ppc, run, prevMargins>>

\* one iteration of the for loop
LoopIteration ==
  /\ ppc = "loop"
  /\ i <= Len(sections)
  /\ LET sectionHeight == sections[i]
         startY == currentHeight
         endY == currentHeight + sectionHeight
         pushed == IsPushed(startY, sectionHeight)
         pushDown == IF pushed THEN PushDown(startY) ELSE 0
     IN IF IsSkipped(sectionHeight)
        THEN UNCHANGED <<marginTop, currentHeight, log>>
        ELSE /\ marginTop' = IF pushed
                             THEN [marginTop EXCEPT ![i] = AssignMargin(@, pushDown)]
                             ELSE marginTop
             /\ currentHeight' = currentHeight + pushDown + sectionHeight
             /\ log' = Append(log, [idx |-> i,
                                    height |-> sectionHeight,
                                    startY |-> startY,
                                    endY |-> endY,
                                    pushed |-> pushed,
                                    pushDown |-> pushDown,
                                    spacerHeight |-> SpacerHeight(startY, endY),
                                    placedY |-> currentHeight + pushDown,
                                    after |-> currentHeight + pushDown + sectionHeight])
  /\ i' = i + 1
  /\ UNCHANGED <<sections, ppc, run, prevMargins>>

\* loop condition i < sections.length is false: the function returns
LoopExit ==
  /\ ppc = "loop"
  /\ i > Len(sections)
  /\ ppc' = "idle"
  /\ UNCHANGED <<sections, marginTop, i, currentHeight, run, prevMargins, log>>

StandaloneCall == SmartPaginateCall /\ UNCHANGED evars

StandaloneIteration == LoopIteration /\ UNCHANGED evars

StandaloneExit == LoopExit /\ UNCHANGED evars

NextPaginate ==
  \/ StandaloneCall
  \/ StandaloneIteration
  \/ StandaloneExit

SpecPaginate == InitPaginate /\ [][NextPaginate]_vars

\* ------------------------------------------------------ file names (pure)
WhitespaceChars == {" ", "\t"}

AlnumChars == {"S", "K", "r", "c", "e", "i", "v", "n", "u", "d", "o", "s", "k"}

ToLowerCase(c) == IF c = "S" THEN "s" ELSE IF c = "K" THEN "k" ELSE c

PdfExt == <<".", "p", "d", "f">>

SrceTitle == <<"S", "r", "c", "e", " ", "i", " ", "K", "r", "v", "n", "i", " ",
               "S", "u", "d", "o", "v", "i">>

RECURSIVE SkipWhitespace(_)
SkipWhitespace(t) ==
  IF t /= <<>> /\ Head(t) \in WhitespaceChars THEN SkipWhitespace(Tail(t)) ELSE t

\* title.replace(/\s+/g, '_')
RECURSIVE ReplaceWhitespaceRuns(_)
ReplaceWhitespaceRuns(t) ==
  IF t = <<>> THEN <<>>
  ELSE IF Head(t) \in WhitespaceChars
       THEN <<"_">> \o ReplaceWhitespaceRuns(SkipWhitespace(Tail(t)))
       ELSE <<Head(t)>> \o ReplaceWhitespaceRuns(Tail(t))

\* title.replace(/[^a-z0-9]/gi, '_').toLowerCase()
ReplaceNonAlnumLower(t) ==
  [k \in 1..Len(t) |-> IF t[k] \in AlnumChars THEN ToLowerCase(t[k]) ELSE "_"]

ShareFileName(t) == ReplaceWhitespaceRuns(t) \o PdfExt

DownloadFileName(t) == t \o PdfExt

HighQualityFileName(t) == ReplaceNonAlnumLower(t) \o PdfExt

TextPdfFileName(t) == ReplaceWhitespaceRuns(t) \o PdfExt

\* --------------------------------------------------------- slicer (pure)
\* imgHeight = canvas.height * imgWidth / canvas.width, times canvas.width
ImgHeight(c) == c.height * imgWidth

PageStepNone(c) == 0

\* pageHeight, times canvas.width
PageStep(c) == pageHeight * c.width

PositionAfterStep(hl, c) == hl - PageStep(c) - ImgHeight(c)

\* position = heightLeft - imgHeight
Position(hl, c) == hl - ImgHeight(c)

LoopConditionInclusive(hl) == hl >= 0

LoopCondition(hl) == hl > 0

\* ------------------------------------------------- export (steps)
Variants == {"pdfUtils", "highQuality", "textPdf"}

Platforms == {"whatsapp", "viber", "download"}

Titles == {t \in SeqsUpTo(TitleChars, MaxTitleLen) : Len(t) >= 1} \cup {SrceTitle}

InitExport ==
  /\ ExportIdle
  /\ AppUnused
  /\ variant \in Variants
  /\ title \in Titles
  /\ liveSections \in ExportLayouts
  /\ liveMargins = Zeros(Len(liveSections))
  /\ sections = <<>>
  /\ marginTop = <<>>
  /\ i = 1
  /\ currentHeight = 0
  /\ ppc = "idle"
  /\ run = 0
  /\ prevMargins = <<>>
  /\ log = <<>>

\* where an exception thrown inside the PDF steps lands
ThrowTarget == IF variant = "pdfUtils" THEN "catch" ELSE "hsCatch"

\* where a normal completion of the delivery lands
ReturnTarget == IF variant = "pdfUtils" THEN "finally" ELSE "hsFinally"

\* what the export that just ended computed, kept for comparison with the
\* next export of the same lesson
SnapshotOfExport ==
  LET didSlice == variant /= "textPdf" /\ delivered /= "none"
  IN [paginated |-> run >= 1 /\ ppc = "idle" /\ i > Len(sections),
      margins |-> marginTop,
      sliced |-> didSlice,
      canvas |-> IF didSlice THEN canvas ELSE NoCanvas,
      pages |-> IF didSlice THEN pages ELSE 0]

\* onClick={handleShare} disabled={isGeneratingPdf}; setIsGeneratingPdf(true)
HandleShare ==
  /\ ~isGeneratingPdf
  /\ exports < MaxExports
  /\ exports' = exports + 1
  /\ containerPresent' \in BOOLEAN
  /\ shareSupported' \in BOOLEAN
  /\ platform' \in (IF variant = "textPdf" THEN Platforms ELSE {"download"})
  /\ isGeneratingPdf' = TRUE
  /\ epc' = IF variant = "textPdf" THEN "textGen" ELSE "lookup"
  /\ canvas' = NoCanvas
  /\ heightLeft' = 0
  /\ position' = 0
  /\ pages' = 0
  /\ addPageCalls' = 0
  /\ addImageCalls' = 0
  /\ offsets' = <<>>
  /\ rasterCalls' = 0
  /\ assemblyCalls' = 0
  /\ shareCalls' = 0
  /\ saveCalls' = 0
  /\ shareText' = <<>>
  /\ previous' = SnapshotOfExport
  /\ fileName' = <<>>
  /\ savedName' = <<>>
  /\ delivered' = "none"
  /\ opened' = "none"
  /\ notices' = 0
  /\ failedStep' = ""
  /\ threw' = FALSE
  /\ alerts' = 0
  /\ UNCHANGED <<variant, title, liveSections, liveMargins, orphans,
                 clonesAttached, pvars>>
  /\ UNCHANGED <<avars, svars>>

ContainerMissingIgnored ==
  /\ epc = "lookup"
  /\ variant = "pdfUtils"
  /\ ~containerPresent
  /\ epc' = "settle"
  /\ UNCHANGED <<envvars, docvars, outvars, errvars, isGeneratingPdf,
                 clonesAttached, pvars>>
  /\ UNCHANGED <<avars, svars>>

\* generateAndSharePdf: if (!originalElement) { console.error; return; }
ContainerMissing ==
  /\ epc = "lookup"
  /\ variant = "pdfUtils"
  /\ ~containerPresent
  /\ failedStep' = "container"
  /\ epc' = "hsFinally"
  /\ UNCHANGED <<envvars, docvars, outvars, threw, alerts, isGeneratingPdf,
                 clonesAttached, pvars>>
  /\ UNCHANGED <<avars, svars>>

\* cloneNode(true), restyle, document.body.appendChild(clone)
CreateClone ==
  /\ epc = "lookup"
  /\ variant = "pdfUtils"
  /\ containerPresent
  /\ sections' = liveSections
  /\ marginTop' = liveMargins
  /\ prevMargins' = liveMargins
  /\ i' = 1
  /\ currentHeight' = 0
  /\ ppc' = "idle"
  /\ run' = 0
  /\ log' = <<>>
  /\ clonesAttached' = clonesAttached + 1
  /\ epc' = "paginate"
  /\ UNCHANGED <<envvars, docvars, outvars, errvars, isGeneratingPdf>>
  /\ UNCHANGED <<avars, svars>>

\* smartPaginate(clone), before the try block
ClonePaginateCall ==
  /\ epc = "paginate"
  /\ run = 0
  /\ SmartPaginateCall
  /\ UNCHANGED evars

LivePaginateIteration ==
  /\ epc = "paginate"
  /\ LoopIteration
  /\ liveMargins' = marginTop'
  /\ UNCHANGED <<variant, title, containerPresent, shareSupported, platform,
                 exports, liveSections, previous, orphans>>
  /\ UNCHANGED <<docvars, outvars, errvars, epc, isGeneratingPdf, clonesAttached>>
  /\ UNCHANGED <<avars, svars>>

ClonePaginateIteration ==
  /\ epc = "paginate"
  /\ LoopIteration
  /\ UNCHANGED evars

\* section.style.marginTop = ... throws (a child without a style property);
\* the call is outside try/finally, so the exception leaves
\* generateAndSharePdf directly
ClonePaginateThrows ==
  /\ epc = "paginate"
  /\ ppc = "loop"
  /\ i <= Len(sections)
  /\ sections[i] /= 0
  /\ IsPushed(currentHeight, sections[i])
  /\ ppc' = "idle"
  /\ failedStep' = "paginate"
  /\ epc' = "hsCatch"
  /\ UNCHANGED <<sections, marginTop, i, currentHeight, run, prevMargins, log>>
  /\ UNCHANGED <<envvars, docvars, outvars, threw, alerts, isGeneratingPdf,
                 clonesAttached>>
  /\ UNCHANGED <<avars, svars>>

ClonePaginateReturnNoSettle ==
  /\ epc = "paginate"
  /\ LoopExit
  /\ epc' = "rasterize"
  /\ UNCHANGED <<envvars, docvars, outvars, errvars, isGeneratingPdf,
                 clonesAttached>>
  /\ UNCHANGED <<avars, svars>>

ClonePaginateReturn ==
  /\ epc = "paginate"
  /\ LoopExit
  /\ epc' = "settle"
  /\ UNCHANGED <<envvars, docvars, outvars, errvars, isGeneratingPdf,
                 clonesAttached>>
  /\ UNCHANGED <<avars, svars>>

\* await new Promise(r => setTimeout(r, 500))
SettleDelay ==
  /\ epc = "settle"
  /\ epc' = "rasterize"
  /\ UNCHANGED <<envvars, docvars, outvars, errvars, isGeneratingPdf,
                 clonesAttached, pvars>>
  /\ UNCHANGED <<avars, svars>>

\* generateHighQualityPdf: if (!input) throw new Error(...)
HighQualityContainerMissing ==
  /\ epc = "lookup"
  /\ variant = "highQuality"
  /\ ~containerPresent
  /\ failedStep' = "container"
  /\ epc' = "hsCatch"
  /\ UNCHANGED <<envvars, docvars, outvars, threw, alerts, isGeneratingPdf,
                 clonesAttached, pvars>>
  /\ UNCHANGED <<avars, svars>>

HighQualityContainerFound ==
  /\ epc = "lookup"
  /\ variant = "highQuality"
  /\ containerPresent
  /\ epc' = "rasterize"
  /\ UNCHANGED <<envvars, docvars, outvars, errvars, isGeneratingPdf,
                 clonesAttached, pvars>>
  /\ UNCHANGED <<avars, svars>>

\* const canvas = await html2canvas(...)
Html2Canvas ==
  /\ epc = "rasterize"
  /\ \E c \in Canvases : canvas' = [width |-> c[1], height |-> c[2]]
  /\ rasterCalls' = rasterCalls + 1
  /\ epc' = "firstPage"
  /\ UNCHANGED <<heightLeft, position, pages, addPageCalls, addImageCalls,
                 offsets, assemblyCalls>>
  /\ UNCHANGED <<envvars, outvars, errvars, isGeneratingPdf, clonesAttached, pvars>>
  /\ UNCHANGED <<avars, svars>>

Html2CanvasRetried ==
  /\ epc = "rasterize"
  /\ rasterCalls' = rasterCalls + 1
  /\ epc' = "rasterize"
  /\ UNCHANGED <<canvas, heightLeft, position, pages, addPageCalls,
                 addImageCalls, offsets, assemblyCalls>>
  /\ UNCHANGED <<envvars, outvars, errvars, isGeneratingPdf, clonesAttached, pvars>>
  /\ UNCHANGED <<avars, svars>>

\* html2canvas rejects: control goes to catch (err) of the enclosing try
Html2CanvasThrows ==
  /\ epc = "rasterize"
  /\ rasterCalls' = rasterCalls + 1
  /\ failedStep' = "rasterize"
  /\ epc' = ThrowTarget
  /\ UNCHANGED <<canvas, heightLeft, position, pages, addPageCalls,
                 addImageCalls, offsets, assemblyCalls>>
  /\ UNCHANGED <<envvars, outvars, threw, alerts, isGeneratingPdf,
                 clonesAttached, pvars>>
  /\ UNCHANGED <<avars, svars>>

\* new jsPDF; heightLeft = imgHeight; position = 0; addImage; heightLeft -= pageHeight
FirstPage ==
  /\ epc = "firstPage"
  /\ pages' = 1
  /\ addImageCalls' = 1
  /\ position' = 0
  /\ offsets' = <<0>>
  /\ heightLeft' = ImgHeight(canvas) - PageStep(canvas)
  /\ assemblyCalls' = assemblyCalls + 1
  /\ epc' = "loop"
  /\ UNCHANGED <<canvas, addPageCalls, rasterCalls>>
  /\ UNCHANGED <<envvars, outvars, errvars, isGeneratingPdf, clonesAttached, pvars>>
  /\ UNCHANGED <<avars, svars>>

\* while (heightLeft > 0) { position = ...; addPage; addImage; heightLeft -= pageHeight }
SliceLoop ==
  /\ epc = "loop"
  /\ LoopCondition(heightLeft)
  /\ position' = Position(heightLeft, canvas)
  /\ offsets' = Append(offsets, Position(heightLeft, canvas))
  /\ addPageCalls' = addPageCalls + 1
  /\ pages' = pages + 1
  /\ addImageCalls' = addImageCalls + 1
  /\ heightLeft' = heightLeft - PageStep(canvas)
  /\ UNCHANGED <<canvas, epc, rasterCalls, assemblyCalls>>
  /\ UNCHANGED <<envvars, outvars, errvars, isGeneratingPdf, clonesAttached, pvars>>
  /\ UNCHANGED <<avars, svars>>

SliceExit ==
  /\ epc = "loop"
  /\ ~LoopCondition(heightLeft)
  /\ epc' = "name"
  /\ UNCHANGED <<envvars, docvars, outvars, errvars, isGeneratingPdf,
                 clonesAttached, pvars>>
  /\ UNCHANGED <<avars, svars>>

\* toDataURL / new jsPDF / addImage / addPage / output('blob') throws
AssemblyThrows ==
  /\ epc \in {"firstPage", "loop", "name"}
  /\ assemblyCalls' = IF epc = "firstPage" THEN assemblyCalls + 1 ELSE assemblyCalls
  /\ failedStep' = "assembly"
  /\ epc' = ThrowTarget
  /\ UNCHANGED <<canvas, heightLeft, position, pages, addPageCalls,
                 addImageCalls, offsets, rasterCalls>>
  /\ UNCHANGED <<envvars, outvars, threw, alerts, isGeneratingPdf,
                 clonesAttached, pvars>>
  /\ UNCHANGED <<avars, svars>>

\* doc.output('blob'); new File([blob], <name>, ...)
MakeFile ==
  /\ epc = "name"
  /\ fileName' = IF variant = "pdfUtils" THEN ShareFileName(title)
                 ELSE HighQualityFileName(title)
  /\ epc' = "deliver"
  /\ UNCHANGED <<savedName, delivered, opened, notices, shareCalls, saveCalls,
                 shareText>>
  /\ UNCHANGED <<envvars, docvars, errvars, isGeneratingPdf, clonesAttached, pvars>>
  /\ UNCHANGED <<avars, svars>>

\* text: 'Medicinska lekcija ...' resp. text: `Pogledaj lekciju: ${title}`
ShareCaption ==
  IF variant = "pdfUtils"
  THEN <<"Medicinska lekcija generisana pomocu MediBuilder AI.">>
  ELSE <<"Pogledaj lekciju: ">> \o title

\* if (navigator.share && navigator.canShare ...) await navigator.share({...})
BeginShare ==
  /\ epc = "deliver"
  /\ shareSupported
  /\ shareCalls' = shareCalls + 1
  /\ shareText' = ShareCaption
  /\ epc' = "sharing"
  /\ UNCHANGED <<fileName, savedName, delivered, opened, notices, saveCalls>>
  /\ UNCHANGED <<envvars, docvars, errvars, isGeneratingPdf, clonesAttached, pvars>>
  /\ UNCHANGED <<avars, svars>>

ShareResolvesThenSave ==
  /\ epc = "sharing"
  /\ delivered' = "shared"
  /\ savedName' = DownloadFileName(title)
  /\ saveCalls' = saveCalls + 1
  /\ epc' = ReturnTarget
  /\ UNCHANGED <<fileName, opened, notices, shareCalls, shareText>>
  /\ UNCHANGED <<envvars, docvars, errvars, isGeneratingPdf, clonesAttached, pvars>>
  /\ UNCHANGED <<avars, svars>>

ShareResolves ==
  /\ epc = "sharing"
  /\ delivered' = "shared"
  /\ epc' = ReturnTarget
  /\ UNCHANGED <<fileName, savedName, opened, notices, shareCalls, saveCalls,
                 shareText>>
  /\ UNCHANGED <<envvars, docvars, errvars, isGeneratingPdf, clonesAttached, pvars>>
  /\ UNCHANGED <<avars, svars>>

ShareRejects ==
  /\ epc = "sharing"
  /\ failedStep' = "share"
  /\ epc' = ThrowTarget
  /\ UNCHANGED <<envvars, docvars, outvars, threw, alerts, isGeneratingPdf,
                 clonesAttached, pvars>>
  /\ UNCHANGED <<avars, svars>>

\* else branch: doc.save(...) resp. a.download = file.name; a.click(); alert(...)
Download ==
  /\ epc = "deliver"
  /\ ~shareSupported
  /\ savedName' = IF variant = "pdfUtils" THEN DownloadFileName(title) ELSE fileName
  /\ delivered' = "downloaded"
  /\ notices' = IF variant = "highQuality" THEN notices + 1 ELSE notices
  /\ saveCalls' = saveCalls + 1
  /\ epc' = ReturnTarget
  /\ UNCHANGED <<fileName, opened, shareCalls, shareText>>
  /\ UNCHANGED <<envvars, docvars, errvars, isGeneratingPdf, clonesAttached, pvars>>
  /\ UNCHANGED <<avars, svars>>

DownloadThrows ==
  /\ epc = "deliver"
  /\ ~shareSupported
  /\ failedStep' = "save"
  /\ epc' = ThrowTarget
  /\ UNCHANGED <<envvars, docvars, outvars, threw, alerts, isGeneratingPdf,
                 clonesAttached, pvars>>
  /\ UNCHANGED <<avars, svars>>

CatchSwallow ==
  /\ epc = "catch"
  /\ threw' = FALSE
  /\ epc' = "finally"
  /\ UNCHANGED <<envvars, docvars, outvars, failedStep, alerts, isGeneratingPdf,
                 clonesAttached, pvars>>
  /\ UNCHANGED <<avars, svars>>

\* catch (err) { console.error(...); throw err; }
CatchRethrow ==
  /\ epc = "catch"
  /\ threw' = TRUE
  /\ epc' = "finally"
  /\ UNCHANGED <<envvars, docvars, outvars, failedStep, alerts, isGeneratingPdf,
                 clonesAttached, pvars>>
  /\ UNCHANGED <<avars, svars>>

\* finally { document.body.removeChild(clone); }
Finally ==
  /\ epc = "finally"
  /\ clonesAttached' = clonesAttached - 1
  /\ epc' = IF threw THEN "hsCatch" ELSE "hsFinally"
  /\ UNCHANGED <<envvars, docvars, outvars, errvars, isGeneratingPdf, pvars>>
  /\ UNCHANGED <<avars, svars>>

\* textPdf revision: const doc = generatePdf()
TextGenerate ==
  /\ epc = "textGen"
  /\ assemblyCalls' = assemblyCalls + 1
  /\ epc' = "textSave"
  /\ UNCHANGED <<canvas, heightLeft, position, pages, addPageCalls,
                 addImageCalls, offsets, rasterCalls>>
  /\ UNCHANGED <<envvars, outvars, errvars, isGeneratingPdf,
                 clonesAttached, pvars>>
  /\ UNCHANGED <<avars, svars>>

TextGenerateThrows ==
  /\ epc = "textGen"
  /\ assemblyCalls' = assemblyCalls + 1
  /\ failedStep' = "assembly"
  /\ epc' = "hsCatch"
  /\ UNCHANGED <<canvas, heightLeft, position, pages, addPageCalls,
                 addImageCalls, offsets, rasterCalls>>
  /\ UNCHANGED <<envvars, outvars, threw, alerts, isGeneratingPdf,
                 clonesAttached, pvars>>
  /\ UNCHANGED <<avars, svars>>

\* fileName = ...; doc.save(fileName); window.open(...)
TextSave ==
  /\ epc = "textSave"
  /\ fileName' = TextPdfFileName(title)
  /\ savedName' = TextPdfFileName(title)
  /\ delivered' = "downloaded"
  /\ opened' = IF platform \in {"whatsapp", "viber"} THEN platform ELSE "none"
  /\ saveCalls' = saveCalls + 1
  /\ epc' = "hsFinally"
  /\ UNCHANGED <<notices, shareCalls, shareText>>
  /\ UNCHANGED <<envvars, docvars, errvars, isGeneratingPdf, clonesAttached, pvars>>
  /\ UNCHANGED <<avars, svars>>

TextSaveThrows ==
  /\ epc = "textSave"
  /\ failedStep' = "save"
  /\ epc' = "hsCatch"
  /\ UNCHANGED <<envvars, docvars, outvars, threw, alerts, isGeneratingPdf,
                 clonesAttached, pvars>>
  /\ UNCHANGED <<avars, svars>>

HandleShareCatchSilent ==
  /\ epc = "hsCatch"
  /\ threw' = FALSE
  /\ epc' = "hsFinally"
  /\ UNCHANGED <<envvars, docvars, outvars, failedStep, alerts, isGeneratingPdf,
                 clonesAttached, pvars>>
  /\ UNCHANGED <<avars, svars>>

\* handleShare: catch (e) { console.error(...); alert(...); }
HandleShareCatch ==
  /\ epc = "hsCatch"
  /\ alerts' = alerts + 1
  /\ threw' = FALSE
  /\ epc' = "hsFinally"
  /\ UNCHANGED <<envvars, docvars, outvars, failedStep, isGeneratingPdf,
                 clonesAttached, pvars>>
  /\ UNCHANGED <<avars, svars>>

HandleShareFinallyNoReset ==
  /\ epc = "hsFinally"
  /\ epc' = "idle"
  /\ UNCHANGED <<envvars, docvars, outvars, errvars, isGeneratingPdf,
                 clonesAttached, pvars>>
  /\ UNCHANGED <<avars, svars>>

\* handleShare: finally { setIsGeneratingPdf(false); }
HandleShareFinally ==
  /\ epc = "hsFinally"
  /\ isGeneratingPdf' = FALSE
  /\ epc' = "idle"
  /\ UNCHANGED <<envvars, docvars, outvars, errvars, clonesAttached, pvars>>
  /\ UNCHANGED <<avars, svars>>

NextExport ==
  \/ HandleShare
  \/ ContainerMissing
  \/ CreateClone
  \/ ClonePaginateCall
  \/ ClonePaginateIteration
  \/ ClonePaginateThrows
  \/ ClonePaginateReturn
  \/ SettleDelay
  \/ HighQualityContainerMissing
  \/ HighQualityContainerFound
  \/ Html2Canvas
  \/ Html2CanvasThrows
  \/ FirstPage
  \/ SliceLoop
  \/ SliceExit
  \/ AssemblyThrows
  \/ MakeFile
  \/ BeginShare
  \/ ShareResolves
  \/ ShareRejects
  \/ Download
  \/ DownloadThrows
  \/ CatchRethrow
  \/ Finally
  \/ TextGenerate
  \/ TextGenerateThrows
  \/ TextSave
  \/ TextSaveThrows
  \/ HandleShareCatch
  \/ HandleShareFinally

SpecExport == InitExport /\ [][NextExport]_vars

\* ------------------------------------------- slicer under fair scheduling
\* the slicing loop is synchronous code: once entered it runs on
InitSlicer == InitExport /\ title = SrceTitle

SpecSlicerFair ==
  /\ InitSlicer
  /\ [][NextExport]_vars
  /\ WF_vars(SliceLoop)
  /\ WF_vars(SliceExit)

\* ------------------------------------------------ unmount and remount
\* App: onBack (setAppState(DASHBOARD)) unmounts LessonView while its export
\* is suspended at an await; onSelectLesson mounts a new LessonView, whose
\* useState(false) gives a fresh isGeneratingPdf. The export that was running
\* keeps running detached; its further steps are summarised by OrphanFinishes.
BackAndReopen ==
  /\ epc \in {"settle", "rasterize", "sharing"}
  /\ orphans' = orphans + 1
  /\ epc' = "idle"
  /\ isGeneratingPdf' = FALSE
  /\ canvas' = NoCanvas
  /\ heightLeft' = 0
  /\ position' = 0
  /\ pages' = 0
  /\ addPageCalls' = 0
  /\ addImageCalls' = 0
  /\ offsets' = <<>>
  /\ rasterCalls' = 0
  /\ assemblyCalls' = 0
  /\ fileName' = <<>>
  /\ savedName' = <<>>
  /\ delivered' = "none"
  /\ opened' = "none"
  /\ notices' = 0
  /\ shareCalls' = 0
  /\ saveCalls' = 0
  /\ shareText' = <<>>
  /\ failedStep' = ""
  /\ threw' = FALSE
  /\ alerts' = 0
  /\ UNCHANGED <<variant, title, containerPresent, shareSupported, platform,
                 exports, liveSections, liveMargins, previous, clonesAttached,
                 pvars>>
  /\ UNCHANGED <<avars, svars>>

\* a detached export reaches its end: its clone is removed in finally, and its
\* setIsGeneratingPdf(false) addresses the unmounted component
OrphanFinishes ==
  /\ orphans > 0
  /\ orphans' = orphans - 1
  /\ clonesAttached' = IF variant = "pdfUtils" THEN clonesAttached - 1
                       ELSE clonesAttached
  /\ UNCHANGED <<variant, title, containerPresent, shareSupported, platform,
                 exports, liveSections, liveMargins, previous>>
  /\ UNCHANGED <<docvars, outvars, errvars, epc, isGeneratingPdf, pvars>>
  /\ UNCHANGED <<avars, svars>>

NextMount ==
  \/ NextExport
  \/ BackAndReopen
  \/ OrphanFinishes

\* the title only names the file: one title is enough for the mount runs
SpecMount == InitSlicer /\ [][NextMount]_vars

\* no lesson is open: nothing to paginate or export
NoLessonView ==
  /\ ExportIdle
  /\ variant = "pdfUtils"
  /\ title = <<"S">>
  /\ liveSections = <<>>
  /\ liveMargins = <<>>
  /\ sections = <<>>
  /\ marginTop = <<>>
  /\ i = 1
  /\ currentHeight = 0
  /\ ppc = "idle"
  /\ run = 0
  /\ prevMargins = <<>>
  /\ log = <<>>

Mounted(stores, keys) ==
  /\ NoLessonView
  /\ AppIdle
  /\ StoreIdle
  /\ apiKey \in keys
  /\ db \in stores
  /\ clock = Len(db)
  /\ load = "loading"

\* without an API key every generation rejects at its first request, which a
\* run with a key can do as well: the runs of NextApp without one add nothing
InitApp == Mounted(InitialStores, {TRUE})

InitLesson == Mounted(LessonStores, BOOLEAN)

\* ------------------------------------------------------ App (navigation)
\* useEffect(() => { loadLessons() }, []): getAllLessonsFromDB settles
LoadLessons ==
  /\ load = "loading"
  /\ load' = "done"
  /\ \E ok \in BOOLEAN :
       /\ dbError' = (dbError \/ ~ok)
       /\ Commit(Reloaded(ok, currentLesson, gen, img, upd), currentLesson, gen,
                 img, upd)
  /\ UNCHANGED <<appState, isGeneratingImage, db, apiKey, recorder, del, ops,
                 clock, appAlerts>>
  /\ UNCHANGED <<pvars, xvars, svars>>

\* onNewLesson={() => setAppState(AppState.RECORDING)}
OnNewLesson ==
  /\ appState = "DASHBOARD"
  /\ appState' = "RECORDING"
  /\ UNCHANGED <<lessons, currentLesson, isGeneratingImage, dbError, db, heap,
                 apiKey, recorder, gen, img, upd, del, load, ops, clock, appAlerts>>
  /\ UNCHANGED <<pvars, xvars, svars>>

\* onScan={() => setAppState(AppState.CAMERA)}
OnScan ==
  /\ appState = "DASHBOARD"
  /\ appState' = "CAMERA"
  /\ UNCHANGED <<lessons, currentLesson, isGeneratingImage, dbError, db, heap,
                 apiKey, recorder, gen, img, upd, del, load, ops, clock, appAlerts>>
  /\ UNCHANGED <<pvars, xvars, svars>>

OnSelectLessonStateOnly ==
  /\ appState = "DASHBOARD"
  /\ Len(lessons) >= 1
  /\ appState' = "VIEWING"
  /\ UNCHANGED <<lessons, currentLesson, isGeneratingImage, dbError, db, heap,
                 apiKey, recorder, gen, img, upd, del, load, ops, clock, appAlerts>>
  /\ UNCHANGED <<pvars, xvars, svars>>

\* onSelectLesson={(lesson) => { setCurrentLesson(lesson); setAppState(VIEWING) }}
OnSelectLesson ==
  /\ appState = "DASHBOARD"
  /\ \E k \in 1..Len(lessons) :
       Commit(Kept, lessons[k], gen, img, upd)
  /\ appState' = "VIEWING"
  /\ UNCHANGED <<isGeneratingImage, dbError, db, apiKey, recorder, del, load,
                 ops, clock, appAlerts>>
  /\ UNCHANGED <<pvars, xvars, svars>>

\* LessonView onBack={() => setAppState(AppState.DASHBOARD)}
OnBack ==
  /\ appState = "VIEWING"
  /\ currentLesson /= NoLesson
  /\ appState' = "DASHBOARD"
  /\ UNCHANGED <<lessons, currentLesson, isGeneratingImage, dbError, db, heap,
                 apiKey, recorder, gen, img, upd, del, load, ops, clock, appAlerts>>
  /\ UNCHANGED <<pvars, xvars, svars>>

\* CameraCapture onCancel={() => setAppState(AppState.DASHBOARD)}
CameraCancel ==
  /\ appState = "CAMERA"
  /\ appState' = "DASHBOARD"
  /\ UNCHANGED <<lessons, currentLesson, isGeneratingImage, dbError, db, heap,
                 apiKey, recorder, gen, img, upd, del, load, ops, clock, appAlerts>>
  /\ UNCHANGED <<pvars, xvars, svars>>

NavigateTargets == {"RECORDING", "DASHBOARD", "CAMERA"}

\* handleAiAction, case 'NAVIGATE' (AiTerminal is not rendered in CAMERA)
AiNavigate ==
  /\ appState /= "CAMERA"
  /\ \E target \in NavigateTargets :
       /\ target /= appState
       /\ appState' = target
       /\ recorder' = RecorderAfter(target, "navigate")
  /\ UNCHANGED <<lessons, currentLesson, isGeneratingImage, dbError, db, heap,
                 apiKey, gen, img, upd, del, load, ops, clock, appAlerts>>
  /\ UNCHANGED <<pvars, xvars, svars>>
\* ------------------------------------------------------------- Recorder
\* startRecording: await navigator.mediaDevices.getUserMedia({ audio: true })
StartRecording ==
  /\ appState = "RECORDING"
  /\ recorder.state = "none"
  /\ recorder' = [state |-> "asking", cause |-> ""]
  /\ UNCHANGED <<appState, lessons, currentLesson, isGeneratingImage, dbError, db,
                 heap, apiKey, gen, img, upd, del, load, ops, clock, appAlerts>>
  /\ UNCHANGED <<pvars, xvars, svars>>

\* getUserMedia resolves: new MediaRecorder(stream); mediaRecorder.start()
MicGranted ==
  /\ appState = "RECORDING"
  /\ recorder.state = "asking"
  /\ recorder' = [state |-> "recording", cause |-> ""]
  /\ UNCHANGED <<appState, lessons, currentLesson, isGeneratingImage, dbError, db,
                 heap, apiKey, gen, img, upd, del, load, ops, clock, appAlerts>>
  /\ UNCHANGED <<pvars, xvars, svars>>

\* getUserMedia rejects: catch (err) { alert("Microphone access denied...") }
MicDenied ==
  /\ appState = "RECORDING"
  /\ recorder.state = "asking"
  /\ recorder' = NoRecorder
  /\ UNCHANGED <<appState, lessons, currentLesson, isGeneratingImage, dbError, db,
                 heap, apiKey, gen, img, upd, del, load, ops, clock, appAlerts>>
  /\ UNCHANGED <<pvars, xvars, svars>>

\* stopRecording: mediaRecorderRef.current.stop(); setIsRecording(false)
StopRecording ==
  /\ appState = "RECORDING"
  /\ recorder.state = "recording"
  /\ recorder' = [state |-> "stopping", cause |-> "stop"]
  /\ UNCHANGED <<appState, lessons, currentLesson, isGeneratingImage, dbError, db,
                 heap, apiKey, gen, img, upd, del, load, ops, clock, appAlerts>>
  /\ UNCHANGED <<pvars, xvars, svars>>

\* Recorder onCancel={() => setAppState(AppState.DASHBOARD)}, which unmounts
\* Recorder and runs the cleanup of its useEffect
RecorderCancel ==
  /\ appState = "RECORDING"
  /\ appState' = "DASHBOARD"
  /\ recorder' = RecorderAfter("DASHBOARD", "cancel")
  /\ UNCHANGED <<lessons, currentLesson, isGeneratingImage, dbError, db, heap,
                 apiKey, gen, img, upd, del, load, ops, clock, appAlerts>>
  /\ UNCHANGED <<pvars, xvars, svars>>

\* ----------------------------------------------------- lesson generation
\* handleRecordingComplete / handleImageCapture up to the first await:
\* setAppState(GENERATING); await generateLessonFrom...(...)
StartGeneration(kind, cause) ==
  /\ gen.pc = "idle"
  /\ ops < MaxOps
  /\ ops' = ops + 1
  /\ gen' = [pc |-> "content", kind |-> kind, cause |-> cause,
             lesson |-> NoLesson]
  /\ appState' = "GENERATING"
  /\ UNCHANGED <<lessons, currentLesson, img, upd, heap>>
  /\ UNCHANGED <<isGeneratingImage, dbError, db, apiKey, del, load, clock, appAlerts>>
  /\ UNCHANGED <<pvars, xvars, svars>>

\* mediaRecorder.onstop: await blobToBase64(audioBlob);
\* onRecordingComplete(base64, 'audio/webm')
RecorderOnStop ==
  /\ recorder.state = "stopping"
  /\ recorder' = NoRecorder
  /\ StartGeneration("audio", recorder.cause)

\* CameraCapture handleFinish: onCapture(capturedImages)
CameraFinish ==
  /\ appState = "CAMERA"
  /\ UNCHANGED recorder
  /\ StartGeneration("image", "capture")

\* what generateMedicalImage can do: throw before its try block when there is
\* no API key, otherwise resolve with the inline image or a picsum URL
ImageOutcomes == IF apiKey THEN {"data", "picsum"} ELSE {"throw"}

\* generateLessonFrom... resolves: newLesson is built with images: [] and
\* generateMedicalImage(coverPrompt) is awaited
GenContentResolves ==
  /\ gen.pc = "content"
  /\ apiKey
  /\ clock < MaxClock
  /\ clock' = clock + 1
  /\ LET r == FreshRef(LiveRefs(lessons, currentLesson, gen, img, upd))
         newLesson == [id |-> clock + 1,
                       createdAt |-> clock + 1,
                       content |-> GeneratedContent,
                       images |-> r,
                       audio |-> (gen.kind = "audio")]
     IN Commit([objs |-> lessons, heap |-> [heap EXCEPT ![r] = EmptyImages]],
               currentLesson,
               [pc |-> "cover", kind |-> "", cause |-> "", lesson |-> newLesson],
               img, upd)
  /\ UNCHANGED <<appState, isGeneratingImage, dbError, db, apiKey, recorder, del,
                 load, ops, appAlerts>>
  /\ UNCHANGED <<pvars, xvars, svars>>

\* catch (error) { console.error(error); alert(...); setAppState(DASHBOARD) }
GenFails(step) ==
  /\ gen.pc = step
  /\ appAlerts' = appAlerts + 1
  /\ appState' = "DASHBOARD"
  /\ recorder' = RecorderAfter("DASHBOARD", "navigate")
  /\ Commit(Kept, currentLesson, GenIdle, img, upd)
  /\ UNCHANGED <<isGeneratingImage, dbError, db, apiKey, del, load, ops, clock>>
  /\ UNCHANGED <<pvars, xvars, svars>>

\* generateLessonFrom... rejects (no API key, no response, network)
GenContentRejects == GenFails("content")

GenCoverAborts ==
  /\ gen.pc = "cover"
  /\ \E r \in ImageOutcomes :
       IF r /= "data"
       THEN /\ appState' = "DASHBOARD"
            /\ recorder' = RecorderAfter("DASHBOARD", "navigate")
            /\ appAlerts' = appAlerts + 1
            /\ Commit(Kept, currentLesson, GenIdle, img, upd)
       ELSE /\ gen' = [gen EXCEPT !.pc = "save"]
            /\ UNCHANGED <<lessons, currentLesson, img, upd, appState, recorder,
                           appAlerts>>
            /\ heap' = [heap EXCEPT ![gen.lesson.images][0] = r]
  /\ UNCHANGED <<isGeneratingImage, dbError, db, apiKey, del, load, ops, clock>>
  /\ UNCHANGED <<pvars, xvars, svars>>

\* try { coverUrl = await generateMedicalImage(...); newLesson.images[0] = ... }
\* catch (e) { console.error(...) }; then await saveLessonToDB(newLesson)
GenCoverSettles ==
  /\ gen.pc = "cover"
  /\ \E r \in ImageOutcomes :
       heap' = IF r = "throw" THEN heap
               ELSE [heap EXCEPT ![gen.lesson.images][0] = r]
  /\ gen' = [gen EXCEPT !.pc = "save"]
  /\ UNCHANGED <<appState, lessons, currentLesson, isGeneratingImage, dbError, db,
                 apiKey, recorder, img, upd, del, load, ops, clock, appAlerts>>
  /\ UNCHANGED <<pvars, xvars, svars>>

\* saveLessonToDB resolves: the store holds a clone of newLesson;
\* refreshLessons() is awaited
GenSaveResolves ==
  /\ gen.pc = "save"
  /\ db' = Put(db, ValueOf(gen.lesson, heap))
  /\ gen' = [gen EXCEPT !.pc = "refresh"]
  /\ UNCHANGED <<appState, lessons, currentLesson, isGeneratingImage, dbError,
                 heap, apiKey, recorder, img, upd, del, load, ops, clock, appAlerts>>
  /\ UNCHANGED <<pvars, xvars, svars>>

\* saveLessonToDB rejects (initDB or the put request fails)
GenSaveRejects == GenFails("save")

\* refreshLessons settles (it catches its own errors), then
\* setCurrentLesson(newLesson); setAppState(AppState.VIEWING)
GenRefreshSettles ==
  /\ gen.pc = "refresh"
  /\ appState' = "VIEWING"
  /\ recorder' = RecorderAfter("VIEWING", "navigate")
  /\ \E ok \in BOOLEAN :
       Commit(Reloaded(ok, gen.lesson, GenIdle, img, upd), gen.lesson, GenIdle,
              img, upd)
  /\ UNCHANGED <<isGeneratingImage, dbError, db, apiKey, del, load, ops, clock,
                 appAlerts>>
  /\ UNCHANGED <<pvars, xvars, svars>>
\* -------------------------------------------------- handleGenerateImage
\* if (!currentLesson) return; setIsGeneratingImage(true);
\* await generateMedicalImage(prompt)   (the button is disabled while
\* isGeneratingImage)
OnGenerateImage ==
  /\ appState = "VIEWING"
  /\ currentLesson /= NoLesson
  /\ ~isGeneratingImage
  /\ img.pc = "idle"
  /\ ops < MaxOps
  /\ ops' = ops + 1
  /\ isGeneratingImage' = TRUE
  /\ \E index \in Indexes :
       Commit(Kept, currentLesson, gen,
              [pc |-> "image", lesson |-> currentLesson, index |-> index,
               before |-> heap[currentLesson.images]],
              upd)
  /\ UNCHANGED <<appState, dbError, db, apiKey, recorder, del, load, clock,
                 appAlerts>>
  /\ UNCHANGED <<pvars, xvars, svars>>

\* generateMedicalImage throws (no API key): catch (error) { console.error },
\* finally { setIsGeneratingImage(false) }
ImgGenerateThrows ==
  /\ img.pc = "image"
  /\ "throw" \in ImageOutcomes
  /\ isGeneratingImage' = FALSE
  /\ Commit(Kept, currentLesson, gen, ImgIdle, upd)
  /\ UNCHANGED <<appState, dbError, db, apiKey, recorder, del, load, ops, clock,
                 appAlerts>>
  /\ UNCHANGED <<pvars, xvars, svars>>

\* const updatedLesson = { ...currentLesson };
\* updatedLesson.images[index] = { prompt, url };   (the spread copies the
\* reference: updatedLesson.images is the array of the captured currentLesson)
\* await saveLessonToDB(updatedLesson)
ImgGenerated ==
  /\ img.pc = "image"
  /\ \E url \in ImageOutcomes \ {"throw"} :
       heap' = [heap EXCEPT ![img.lesson.images][img.index] = url]
  /\ img' = [img EXCEPT !.pc = "save"]
  /\ UNCHANGED <<appState, lessons, currentLesson, isGeneratingImage, dbError, db,
                 apiKey, recorder, gen, upd, del, load, ops, clock, appAlerts>>
  /\ UNCHANGED <<pvars, xvars, svars>>

\* saveLessonToDB resolves; refreshLessons() is awaited
ImgSaveResolves ==
  /\ img.pc = "save"
  /\ db' = Put(db, ValueOf(img.lesson, heap))
  /\ img' = [img EXCEPT !.pc = "refresh"]
  /\ UNCHANGED <<appState, lessons, currentLesson, isGeneratingImage, dbError,
                 heap, apiKey, recorder, gen, upd, del, load, ops, clock, appAlerts>>
  /\ UNCHANGED <<pvars, xvars, svars>>

\* saveLessonToDB rejects: catch, then finally
ImgSaveRejects ==
  /\ img.pc = "save"
  /\ isGeneratingImage' = FALSE
  /\ Commit(Kept, currentLesson, gen, ImgIdle, upd)
  /\ UNCHANGED <<appState, dbError, db, apiKey, recorder, del, load, ops, clock,
                 appAlerts>>
  /\ UNCHANGED <<pvars, xvars, svars>>

\* refreshLessons settles; setCurrentLesson(updatedLesson); finally
ImgRefreshSettles ==
  /\ img.pc = "refresh"
  /\ isGeneratingImage' = FALSE
  /\ \E ok \in BOOLEAN :
       Commit(Reloaded(ok, img.lesson, gen, ImgIdle, upd), img.lesson, gen,
              ImgIdle, upd)
  /\ UNCHANGED <<appState, dbError, db, apiKey, recorder, del, load, ops, clock,
                 appAlerts>>
  /\ UNCHANGED <<pvars, xvars, svars>>

\* ---------------------------------------------------- handleUpdateLesson
\* await saveLessonToDB(updatedLesson)
StartUpdate(origin, base, updated, section, text) ==
  /\ upd.pc = "idle"
  /\ ops < MaxOps
  /\ ops' = ops + 1
  /\ Commit(Kept, currentLesson, gen, img,
            [pc |-> "save", origin |-> origin, base |-> base, lesson |-> updated,
             section |-> section, text |-> text])
  /\ UNCHANGED <<appState, isGeneratingImage, dbError, db, apiKey, recorder, del,
                 load, clock, appAlerts>>
  /\ UNCHANGED <<pvars, xvars, svars>>

\* what the user typed into the edit form
EditedContents == {[f \in Fields |-> "t1"]}

\* LessonView handleSave: onUpdateLesson({ ...lesson, content: editedContent })
LessonViewUpdate ==
  /\ appState = "VIEWING"
  /\ currentLesson /= NoLesson
  /\ \E edited \in EditedContents :
       StartUpdate("edit", currentLesson,
                   [currentLesson EXCEPT !.content = edited], "", "")

\* payload.section and payload.content as the AI sends them; "" stands for a
\* missing (falsy) value
PayloadSections == Fields \cup {""}

PayloadTexts == {"t1", ""}

AiUpdateSectionWholeContent ==
  /\ appState /= "CAMERA"
  /\ \E section \in PayloadSections, text \in PayloadTexts :
       IF currentLesson /= NoLesson /\ section /= "" /\ text /= ""
       THEN StartUpdate("ai", currentLesson,
                        [currentLesson EXCEPT !.content = [f \in Fields |-> text]],
                        section, text)
       ELSE /\ ops < MaxOps
            /\ ops' = ops + 1
            /\ UNCHANGED <<appState, lessons, currentLesson, isGeneratingImage,
                           dbError, db, heap, apiKey, recorder, gen, img, upd,
                           del, load, clock, appAlerts>>
            /\ UNCHANGED <<pvars, xvars, svars>>

\* handleAiAction, case 'UPDATE_SECTION':
\* if (currentLesson && payload?.section && payload?.content) {
\*   updatedContent = { ...currentLesson.content, [section]: content };
\*   handleUpdateLesson({ ...currentLesson, content: updatedContent }) }
AiUpdateSection ==
  /\ appState /= "CAMERA"
  /\ \E section \in PayloadSections, text \in PayloadTexts :
       IF currentLesson /= NoLesson /\ section /= "" /\ text /= ""
       THEN StartUpdate("ai", currentLesson,
                        [currentLesson EXCEPT !.content[section] = text],
                        section, text)
       ELSE /\ ops < MaxOps
            /\ ops' = ops + 1
            /\ UNCHANGED <<appState, lessons, currentLesson, isGeneratingImage,
                           dbError, db, heap, apiKey, recorder, gen, img, upd,
                           del, load, clock, appAlerts>>
            /\ UNCHANGED <<pvars, xvars, svars>>

\* saveLessonToDB resolves; refreshLessons() is awaited
UpdSaveResolves ==
  /\ upd.pc = "save"
  /\ db' = Put(db, ValueOf(upd.lesson, heap))
  /\ upd' = [upd EXCEPT !.pc = "refresh"]
  /\ UNCHANGED <<appState, lessons, currentLesson, isGeneratingImage, dbError,
                 heap, apiKey, recorder, gen, img, del, load, ops, clock, appAlerts>>
  /\ UNCHANGED <<pvars, xvars, svars>>

\* catch (e) { console.error(...); alert("Greška pri čuvanju izmena.") }
UpdSaveRejects ==
  /\ upd.pc = "save"
  /\ appAlerts' = appAlerts + 1
  /\ Commit(Kept, currentLesson, gen, img, UpdIdle)
  /\ UNCHANGED <<appState, isGeneratingImage, dbError, db, apiKey, recorder, del,
                 load, ops, clock>>
  /\ UNCHANGED <<pvars, xvars, svars>>

\* refreshLessons settles; setCurrentLesson(updatedLesson)
UpdRefreshSettles ==
  /\ upd.pc = "refresh"
  /\ \E ok \in BOOLEAN :
       Commit(Reloaded(ok, upd.lesson, gen, img, UpdIdle), upd.lesson, gen, img,
              UpdIdle)
  /\ UNCHANGED <<appState, isGeneratingImage, dbError, db, apiKey, recorder, del,
                 load, ops, clock, appAlerts>>
  /\ UNCHANGED <<pvars, xvars, svars>>
\* ---------------------------------------------------- handleDeleteLesson
\* Dashboard onDeleteLesson(lesson.id): if (confirm(...)) { try {
\*   await deleteLessonFromDB(id)   (currentLesson is the one of this render)
HandleDeleteLesson ==
  /\ appState = "DASHBOARD"
  /\ del.pc = "idle"
  /\ ops < MaxOps
  /\ ops' = ops + 1
  /\ \E k \in 1..Len(lessons), confirmed \in BOOLEAN :
       del' = IF confirmed
              THEN [pc |-> "delete", id |-> lessons[k].id,
                    closureId |-> currentLesson.id, answer |-> TRUE]
              ELSE DelIdle
  /\ UNCHANGED <<appState, lessons, currentLesson, isGeneratingImage, dbError, db,
                 heap, apiKey, recorder, gen, img, upd, load, clock, appAlerts>>
  /\ UNCHANGED <<pvars, xvars, svars>>

\* deleteLessonFromDB resolves; refreshLessons() is awaited
DelResolves ==
  /\ del.pc = "delete"
  /\ db' = Delete(db, del.id)
  /\ del' = [del EXCEPT !.pc = "refresh"]
  /\ UNCHANGED <<appState, lessons, currentLesson, isGeneratingImage, dbError,
                 heap, apiKey, recorder, gen, img, upd, load, ops, clock, appAlerts>>
  /\ UNCHANGED <<pvars, xvars, svars>>

\* deleteLessonFromDB rejects: catch (e) { console.error("Failed to delete", e) }
DelRejects ==
  /\ del.pc = "delete"
  /\ del' = DelIdle
  /\ UNCHANGED <<appState, lessons, currentLesson, isGeneratingImage, dbError, db,
                 heap, apiKey, recorder, gen, img, upd, load, ops, clock, appAlerts>>
  /\ UNCHANGED <<pvars, xvars, svars>>

DelRefreshSettlesKeepsCurrent ==
  /\ del.pc = "refresh"
  /\ del' = DelIdle
  /\ UNCHANGED <<appState, recorder>>
  /\ \E ok \in BOOLEAN :
       Commit(Reloaded(ok, currentLesson, gen, img, upd), currentLesson, gen,
              img, upd)
  /\ UNCHANGED <<isGeneratingImage, dbError, db, apiKey, load, ops, clock,
                 appAlerts>>
  /\ UNCHANGED <<pvars, xvars, svars>>

\* refreshLessons settles; if (currentLesson?.id === id) {
\*   setAppState(AppState.DASHBOARD); setCurrentLesson(null) }
DelRefreshSettles ==
  /\ del.pc = "refresh"
  /\ del' = DelIdle
  /\ LET matches == del.closureId = del.id
         cur == IF matches THEN NoLesson ELSE currentLesson
     IN /\ appState' = IF matches THEN "DASHBOARD" ELSE appState
        /\ recorder' = IF matches THEN RecorderAfter("DASHBOARD", "navigate")
                       ELSE recorder
        /\ \E ok \in BOOLEAN :
             Commit(Reloaded(ok, cur, gen, img, upd), cur, gen, img, upd)
  /\ UNCHANGED <<isGeneratingImage, dbError, db, apiKey, load, ops, clock,
                 appAlerts>>
  /\ UNCHANGED <<pvars, xvars, svars>>

\* screens, recording, lesson generation and deletion
NextApp ==
  \/ LoadLessons
  \/ OnNewLesson
  \/ OnScan
  \/ OnSelectLesson
  \/ OnBack
  \/ CameraCancel
  \/ AiNavigate
  \/ StartRecording
  \/ MicGranted
  \/ MicDenied
  \/ StopRecording
  \/ RecorderCancel
  \/ RecorderOnStop
  \/ CameraFinish
  \/ GenContentResolves
  \/ GenContentRejects
  \/ GenCoverSettles
  \/ GenSaveResolves
  \/ GenSaveRejects
  \/ GenRefreshSettles
  \/ HandleDeleteLesson
  \/ DelResolves
  \/ DelRejects
  \/ DelRefreshSettles

SpecApp == InitApp /\ [][NextApp]_vars

\* a stored lesson is opened, illustrated and edited
NextLesson ==
  \/ LoadLessons
  \/ OnSelectLesson
  \/ OnBack
  \/ OnGenerateImage
  \/ ImgGenerateThrows
  \/ ImgGenerated
  \/ ImgSaveResolves
  \/ ImgSaveRejects
  \/ ImgRefreshSettles
  \/ LessonViewUpdate
  \/ AiUpdateSection
  \/ UpdSaveResolves
  \/ UpdSaveRejects
  \/ UpdRefreshSettles

SpecLesson == InitLesson /\ [][NextLesson]_vars

\* ---------------------------------------------------------------- claims
PaginateDone == ppc = "idle" /\ run >= 1

\* C1: after smartPaginate, no block with 0 < height < 1050 straddles a page
\* boundary where it is placed: floor(adjustedStartY/1050) =
\* floor((adjustedStartY + height)/1050).
C1_NoSmallBlockStraddles ==
  \A k \in 1..Len(log) :
    (0 < log[k].height /\ log[k].height < PAGE_HEIGHT)
      => (log[k].placedY \div PAGE_HEIGHT
            = (log[k].placedY + log[k].height) \div PAGE_HEIGHT)

C1_Witness ==
  /\ PaginateDone
  /\ \E k \in 1..Len(log) :
       log[k].pushed /\ log[k].startY > PAGE_HEIGHT /\ log[k].height > 1

\* C2: a block whose endY is exactly a multiple of the page height and whose
\* startY lies in the page that ends there does not count as crossing and
\* receives no top margin.
C2_ExactBoundaryNotPushed ==
  \A k \in 1..Len(log) :
    (/\ log[k].endY % PAGE_HEIGHT = 0
     /\ log[k].startY \div PAGE_HEIGHT = (log[k].endY \div PAGE_HEIGHT) - 1)
      => (~log[k].pushed /\ log[k].pushDown = 0 /\ marginTop[log[k].idx] = 0)

\* C8: a block with height >= 1050 never receives a top margin, even when it
\* straddles page boundaries, and the cursor advances by exactly its height.
C8_OversizedBlockUntouched ==
  \A k \in 1..Len(log) :
    log[k].height >= 1050
      => (/\ marginTop[log[k].idx] = 0
          /\ log[k].pushDown = 0
          /\ log[k].after = log[k].startY + log[k].height)

C8_Witness ==
  /\ PaginateDone
  /\ \E k \in 1..Len(log) :
       /\ log[k].height >= 1050
       /\ log[k].startY % 1050 /= 0
       /\ (log[k].endY \div 1050) >= (log[k].startY \div 1050) + 2

\* C9: a block whose startY and endY fall in the same page
\* (floor(startY/1050) = floor(endY/1050)) receives zero added top margin.
C9_SamePageNoMargin ==
  \A k \in 1..Len(log) :
    (log[k].startY \div 1050 = (log[k].startY + log[k].height) \div 1050)
      => (log[k].pushDown = 0 /\ marginTop[log[k].idx] = 0)

C9_Witness ==
  /\ PaginateDone
  /\ \E k \in 1..Len(log) :
       /\ log[k].startY > 1050
       /\ log[k].startY \div 1050 = log[k].endY \div 1050
  /\ \E k \in 1..Len(log) : log[k].pushed

\* C10: smartPaginate is idempotent: a second invocation on the element
\* already adjusted by a first one changes no block's margin, and at the
\* pushed positions no block would be pushed again.
C10_Idempotent ==
  /\ (ppc = "idle" /\ run >= 2) => marginTop = prevMargins
  /\ \A k \in 1..Len(log) :
       ~(/\ log[k].placedY \div 1050 /= (log[k].placedY + log[k].height) \div 1050
         /\ log[k].height < 1050)

C10_Witness ==
  /\ ppc = "idle"
  /\ run = 2
  /\ \E k \in 1..Len(marginTop) : marginTop[k] > 0

ExportFinished == epc = "idle" /\ exports >= 1

\* the slicing loop of the current export has run to its exit
SlicingDone ==
  /\ variant /= "textPdf"
  /\ (epc \in {"name", "deliver", "sharing"} \/ delivered /= "none")

\* ceil(h / 297) for h = canvas.height * 210 / canvas.width
CeilPages == (canvas.height * 210 + 297 * canvas.width - 1) \div (297 * canvas.width)

\* C3 (as stated): the PDF produced by the slicing loop has ceil(h / 297)
\* pages, and this equals the number of page-add operations performed.
C3_PagesEqualAddPageCalls ==
  SlicingDone => (pages = CeilPages /\ addPageCalls = CeilPages)

\* C3 (amended): the PDF has ceil(h / 297) pages for h > 0, one image
\* placement per page, and doc.addPage() is called ceil(h / 297) - 1 times,
\* the first page being the one the document is constructed with.
C3_PageCount ==
  SlicingDone =>
    (/\ pages = CeilPages
     /\ addImageCalls = CeilPages
     /\ addPageCalls = CeilPages - 1)

C3_Witness ==
  /\ SlicingDone
  /\ pages >= 3
  /\ canvas.height * 210 = pages * 297 * canvas.width

\* C4 (as stated): every export whose rasterization and assembly succeeded
\* ends with the document shared or downloaded, also when navigator.share
\* rejects or sharing is unsupported.
C4_AlwaysDelivered ==
  (ExportFinished /\ variant = "pdfUtils" /\ fileName /= <<>> /\ failedStep /= "save")
    => delivered \in {"shared", "downloaded"}

\* C4 (amended): when sharing is unsupported the export falls back to a local
\* download without an error; when navigator.share rejects there is no
\* fallback: nothing is downloaded and handleShare shows one error alert.
C4_FallbackOnlyWhenUnsupported ==
  (ExportFinished /\ variant = "pdfUtils") =>
    (/\ (failedStep = "" /\ ~shareSupported)
          => (delivered = "downloaded" /\ savedName /= <<>> /\ alerts = 0)
     /\ failedStep = "share"
          => (delivered = "none" /\ savedName = <<>> /\ alerts = 1))

C4_Witness ==
  /\ ExportFinished
  /\ variant = "pdfUtils"
  /\ shareSupported
  /\ failedStep = "share"
  /\ fileName /= <<>>
  /\ alerts = 1

\* C5: whenever generateAndSharePdf has finished, by return or by exception in
\* any step (pagination included), no print clone is left attached.
C5_CloneRemoved ==
  (variant = "pdfUtils" /\ epc \in {"hsCatch", "hsFinally", "idle"})
    => clonesAttached = 0

\* C6: on the fallback download path of generateAndSharePdf the file is saved
\* under the sanitized name the share path uses, never under the raw title.
C6_DownloadNameSanitized ==
  (variant = "pdfUtils" /\ delivered = "downloaded")
    => (/\ savedName = fileName
        /\ \A k \in 1..Len(savedName) : savedName[k] \notin WhitespaceChars)

\* C7: every export path that names a file uses the title with each maximal
\* whitespace run replaced by one underscore, everything else unchanged,
\* followed by .pdf ("Srce i Krvni Sudovi" gives Srce_i_Krvni_Sudovi.pdf).
C7_FileNameIsWhitespaceToUnderscore ==
  LET expected == ReplaceWhitespaceRuns(title) \o PdfExt
  IN /\ fileName /= <<>> => fileName = expected
     /\ savedName /= <<>> => savedName = expected
     /\ (title = SrceTitle /\ fileName /= <<>>)
          => fileName = <<"S", "r", "c", "e", "_", "i", "_", "K", "r", "v", "n",
                          "i", "_", "S", "u", "d", "o", "v", "i", ".", "p", "d", "f">>

\* C11: a pushed block gets top margin (startPage + 1) * 1050 - startY, with
\* startY the running cursor including earlier pushdowns, and then starts at
\* a multiple of 1050; heights [400, 800, 300] give margins [0, 650, 250].
C11_PushDownToNextPage ==
  /\ \A k \in 1..Len(log) :
       log[k].pushed =>
         (/\ log[k].pushDown = ((log[k].startY \div 1050) + 1) * 1050 - log[k].startY
          /\ marginTop[log[k].idx] = log[k].pushDown
          /\ log[k].placedY = log[k].startY + log[k].pushDown
          /\ log[k].placedY % 1050 = 0)
  /\ \A k \in 2..Len(log) : log[k].startY = log[k - 1].placedY + log[k - 1].height
  /\ (PaginateDone /\ sections = <<400, 800, 300>>) => marginTop = <<0, 650, 250>>

C11_Witness ==
  /\ PaginateDone
  /\ sections = <<400, 800, 300>>
  /\ marginTop = <<0, 650, 250>>
  /\ log[3].startY = 1850

\* the entries of ms at the positions where hs is not zero
RECURSIVE AtNonZero(_, _)
AtNonZero(hs, ms) ==
  IF hs = <<>> THEN <<>>
  ELSE IF Head(hs) = 0 THEN AtNonZero(Tail(hs), Tail(ms))
       ELSE <<Head(ms)>> \o AtNonZero(Tail(hs), Tail(ms))

\* C12: a zero-height block is skipped: it never reaches the crossing test,
\* gets no margin and leaves the cursor unchanged, so the other blocks get
\* the margins they would get if the zero-height blocks were absent.
C12_ZeroHeightSkipped ==
  /\ \A k \in 1..Len(log) : log[k].height /= 0
  /\ \A k \in 1..Len(sections) : sections[k] = 0 => marginTop[k] = 0
  /\ PaginateDone =>
       (/\ AtNonZero(sections, marginTop) = PaginateFrom(AtNonZero(sections, sections), 0)
        /\ currentHeight = CursorAfter(AtNonZero(sections, sections), 0))

C12_Witness ==
  /\ PaginateDone
  /\ Len(sections) = 3
  /\ sections[1] /= 0
  /\ sections[2] = 0
  /\ marginTop[3] > 0

\* C13: when the render target is absent the export aborts before any work:
\* no clone is created or attached, nothing is paginated, rasterized,
\* assembled, shared or downloaded, and no document is produced.
C13_MissingContainerAborts ==
  /\ [](( /\ variant \in {"pdfUtils", "highQuality"}
          /\ exports >= 1
          /\ ~containerPresent )
         => ( /\ epc \in {"idle", "lookup", "hsCatch", "hsFinally"}
              /\ canvas = NoCanvas
              /\ pages = 0
              /\ addImageCalls = 0
              /\ fileName = <<>>
              /\ savedName = <<>>
              /\ delivered = "none"
              /\ shareCalls = 0
              /\ saveCalls = 0 ))
  /\ [][ ~containerPresent' =>
           (clonesAttached' = clonesAttached /\ pvars' = pvars) ]_vars

C13_Witness ==
  /\ ExportFinished
  /\ variant = "pdfUtils"
  /\ ~containerPresent
  /\ failedStep = "container"
  /\ delivered = "none"

\* C14: a failure of rasterization or assembly is caught and shown to the
\* user as exactly one error notification for that export attempt, and the
\* failed attempt shares nothing and downloads nothing.
C14_OneAlertNoDelivery ==
  /\ alerts <= 1
  /\ failedStep \in {"rasterize", "assembly"}
       => (/\ delivered = "none"
           /\ savedName = <<>>
           /\ shareCalls = 0
           /\ saveCalls = 0)
  /\ (ExportFinished /\ failedStep \in {"rasterize", "assembly"}) => alerts = 1

C14_Witness ==
  /\ ExportFinished
  /\ variant = "pdfUtils"
  /\ failedStep = "assembly"
  /\ pages >= 2
  /\ alerts = 1

\* exports that have started and not yet finished
InFlight == orphans + (IF epc /= "idle" THEN 1 ELSE 0)

\* C15 (as stated): at most one export is in flight at any time; the share
\* control is disabled from the start of handleShare until the export has
\* finished and enabled again after every outcome.
C15_AtMostOneInFlight ==
  /\ InFlight <= 1
  /\ isGeneratingPdf <=> (epc /= "idle")

\* C15 (amended): the share control of a mounted LessonView is disabled
\* exactly while an export started by that LessonView is running, and is
\* enabled again after every outcome; exports of an unmounted LessonView may
\* still be running beside it.
C15_ControlDisabledWhileRunning ==
  /\ isGeneratingPdf <=> (epc /= "idle")
  /\ orphans <= exports

C15_Witness ==
  /\ orphans >= 1
  /\ epc = "rasterize"
  /\ isGeneratingPdf

StageRank(pc) ==
  CASE pc = "paginate" -> 1
    [] pc = "settle" -> 2
    [] pc = "rasterize" -> 3
    [] pc \in {"firstPage", "loop", "name"} -> 4
    [] pc \in {"deliver", "sharing"} -> 5
    [] OTHER -> 0

\* C16: within one export of generateAndSharePdf the stages run in the order
\* paginate, settle delay, rasterize, slice, deliver; a stage is entered only
\* from the completed previous stage, and rasterization only after the settle
\* delay.
C16_StagesInOrder ==
  [][ (variant = "pdfUtils" /\ StageRank(epc') /= 0
         /\ StageRank(epc') /= StageRank(epc))
      => (/\ StageRank(epc') = StageRank(epc) + 1
          /\ epc' = "paginate" => epc = "lookup"
          /\ epc' = "settle" => (ppc' = "idle" /\ run' = 1 /\ i' > Len(sections'))
          /\ epc' = "rasterize" => epc = "settle"
          /\ StageRank(epc') = 4 => (epc = "rasterize" /\ canvas' /= NoCanvas)
          /\ StageRank(epc') = 5 => (epc = "name" /\ heightLeft <= 0 /\ pages >= 1)) ]_vars

C16_Witness ==
  /\ variant = "pdfUtils"
  /\ epc = "sharing"
  /\ pages >= 2
  /\ \E k \in 1..Len(marginTop) : marginTop[k] > 0

\* C17: page 1 shows the image at offset 0 and page k at offset
\* -297 * (k - 1): the offsets decrease by 297 per page.
C17_OffsetsStepByPageHeight ==
  variant /= "textPdf" =>
    (/\ Len(offsets) = addImageCalls
     /\ \A k \in 1..Len(offsets) : offsets[k] = -297 * (k - 1) * canvas.width)

C17_Witness ==
  /\ SlicingDone
  /\ Len(offsets) >= 3
  /\ canvas.width = 1600

\* C18: the slicing loop terminates: every iteration lowers heightLeft by 297,
\* no iteration starts once heightLeft <= 0, and a loop that has been entered
\* is eventually left.
C18_SlicingTerminates ==
  /\ [][ epc = "loop" =>
           (/\ epc' = "loop" => heightLeft' = heightLeft - 297 * canvas.width
            /\ heightLeft <= 0 => epc' /= "loop") ]_vars
  /\ (epc = "loop") ~> (epc /= "loop")

C18_Witness ==
  /\ epc = "name"
  /\ pages >= 7
  /\ heightLeft <= 0

\* an export that ran to its end without any step failing
Successful ==
  /\ ExportFinished
  /\ failedStep = ""
  /\ variant \in {"pdfUtils", "highQuality"}

PaginatedThisExport ==
  /\ variant = "pdfUtils"
  /\ epc \in {"settle", "rasterize", "firstPage", "loop", "name", "deliver",
              "sharing", "catch", "finally"}

\* C20: pagination margins are applied to the clone only, never to the live
\* container, and a later export of the same unchanged lesson computes the
\* same margins and, for the same raster, the same page count.
C20_NoStateAcrossExports ==
  /\ liveMargins = Zeros(Len(liveSections))
  /\ (PaginatedThisExport /\ previous.paginated) => marginTop = previous.margins
  /\ (SlicingDone /\ previous.sliced /\ canvas = previous.canvas)
       => pages = previous.pages

C20_Witness ==
  /\ exports = 2
  /\ PaginatedThisExport
  /\ previous.paginated
  /\ \E k \in 1..Len(marginTop) : marginTop[k] > 0
  /\ SlicingDone
  /\ previous.sliced
  /\ canvas = previous.canvas
  /\ pages >= 2

\* C21: there is no automatic retry: within one export html2canvas and the
\* jsPDF assembly are each invoked at most once, and when either fails the
\* next step is the error handler, after which neither is invoked again in
\* that export.
C21_NoRetry ==
  /\ [](rasterCalls <= 1 /\ assemblyCalls <= 1)
  /\ [][ /\ (failedStep = "" /\ failedStep' \in {"rasterize", "assembly"})
            => epc' = ThrowTarget
        /\ (failedStep \in {"rasterize", "assembly"} /\ exports' = exports)
            => (/\ rasterCalls' = rasterCalls
                /\ assemblyCalls' = assemblyCalls
                /\ failedStep' = failedStep
                /\ epc' \in {"catch", "finally", "hsCatch", "hsFinally", "idle"}) ]_vars

C21_Witness ==
  /\ ExportFinished
  /\ variant = "pdfUtils"
  /\ failedStep = "rasterize"
  /\ rasterCalls = 1
  /\ assemblyCalls = 0
  /\ alerts = 1

\* C22: on every block smartPaginate pushes (it straddles and
\* 0 < height < 1050) endPage = startPage + 1, so the unused spacerHeight
\* = endPage * 1050 - startY equals the applied pushDown.
C22_SpacerEqualsPushDown ==
  \A k \in 1..Len(log) :
    log[k].pushed =>
      (/\ 0 < log[k].height /\ log[k].height < 1050
       /\ log[k].endY \div 1050 = (log[k].startY \div 1050) + 1
       /\ log[k].spacerHeight = (log[k].endY \div 1050) * 1050 - log[k].startY
       /\ log[k].spacerHeight = log[k].pushDown
       /\ marginTop[log[k].idx] = log[k].spacerHeight)

C22_Witness ==
  /\ PaginateDone
  /\ \E k \in 1..Len(log) :
       /\ log[k].pushed
       /\ log[k].startY > 1050
       /\ log[k].endY % 1050 /= 0
       /\ log[k].spacerHeight = log[k].pushDown
       /\ log[k].spacerHeight > 0

\* sum of the first n entries of a sequence of numbers
RECURSIVE SumFirst(_, _)
SumFirst(seq, n) == IF n = 0 THEN 0 ELSE seq[n] + SumFirst(seq, n - 1)

\* sum of the pushdowns applied so far in the current invocation
RECURSIVE SumPushDowns(_)
SumPushDowns(l) ==
  IF l = <<>> THEN 0 ELSE Head(l).pushDown + SumPushDowns(Tail(l))

\* C23: smartPaginate is a single forward pass: after block i the cursor is
\* the sum of the heights of blocks 1..i plus the sum of the pushdowns
\* applied to them, each counted once, and processing a block never changes
\* the margin of an earlier block.
C23_SingleForwardPass ==
  /\ [](run >= 1 =>
         (/\ currentHeight = SumFirst(sections, i - 1) + SumPushDowns(log)
          /\ currentHeight = SumFirst(sections, i - 1) + SumFirst(marginTop, i - 1)))
  /\ [][ ppc = "loop" =>
           (/\ \A k \in 1..(i - 1) : marginTop'[k] = marginTop[k]
            /\ i' \in {i, i + 1}
            /\ sections' = sections) ]_vars

C23_Witness ==
  /\ PaginateDone
  /\ Len(sections) = 3
  /\ marginTop[2] > 0
  /\ marginTop[3] > 0
  /\ currentHeight = sections[1] + sections[2] + sections[3]
                      + marginTop[2] + marginTop[3]

\* ------------------------------------------------ storageService (runs)
\* the lessons handed to saveLessonToDB: any id with any createdAt
StoreIds == 1..MaxKey

StoreTimes == 1..MaxKey

StoreLessons ==
  [id : StoreIds, createdAt : StoreTimes, content : {GeneratedContent},
   images : {EmptyImages}, audio : {FALSE}]

\* an empty object store
InitStore ==
  /\ NoLessonView
  /\ AppUnused

\* await saveLessonToDB(lesson): store.put(lesson), request.onsuccess
StoreSave ==
  /\ \E v \in StoreLessons :
       /\ db' = Put(db, v)
       /\ arg' = v
  /\ lastOp' = "save"
  /\ UNCHANGED result
  /\ UNCHANGED <<appState, lessons, currentLesson, isGeneratingImage, dbError,
                 heap, apiKey, recorder, gen, img, upd, del, load, ops, clock,
                 appAlerts>>
  /\ UNCHANGED <<pvars, xvars>>

\* await deleteLessonFromDB(id): store.delete(id), request.onsuccess
StoreDelete ==
  /\ \E id \in StoreIds :
       /\ db' = Delete(db, id)
       /\ arg' = id
  /\ lastOp' = "delete"
  /\ UNCHANGED result
  /\ UNCHANGED <<appState, lessons, currentLesson, isGeneratingImage, dbError,
                 heap, apiKey, recorder, gen, img, upd, del, load, ops, clock,
                 appAlerts>>
  /\ UNCHANGED <<pvars, xvars>>

\* await getAllLessonsFromDB(): store.getAll(), sort, resolve(lessons)
StoreGetAll ==
  /\ result' = GetAll(db)
  /\ lastOp' = "getAll"
  /\ arg' = 0
  /\ UNCHANGED avars
  /\ UNCHANGED <<pvars, xvars>>

NextStore ==
  \/ StoreSave
  \/ StoreDelete
  \/ StoreGetAll

SpecStore == InitStore /\ [][NextStore]_vars

\* ------------------------------------------------------------ App claims
\* C24: in every reachable state of the App, appState = VIEWING implies that
\* currentLesson is not null, whatever the interleaving of lesson selection,
\* back navigation, AI NAVIGATE actions, deletion and the completion or
\* failure of a lesson generation in flight.
C24_ViewingHasLesson ==
  appState = "VIEWING" => currentLesson /= NoLesson

\* a generation finished after the user had left for the Dashboard and a
\* delete was requested there: the App shows the generated lesson
C24_Witness ==
  /\ appState = "VIEWING"
  /\ currentLesson /= NoLesson
  /\ currentLesson.id = clock
  /\ del.pc = "refresh"
  /\ gen.pc = "idle"
  /\ ops = 2

\* C25: when the user cancels the Recorder while a recording is in progress,
\* onRecordingComplete is never invoked for that recording: no lesson
\* generation is started from a cancelled recording.
C25_CancelStartsNothing ==
  ~(gen.pc /= "idle" /\ gen.kind = "audio" /\ gen.cause = "cancel")

\* the ids of the lessons in a sequence of lessons
IdsOf(s) == {s[k].id : k \in 1..Len(s)}

\* C27: a lesson generation puts the App in GENERATING and ends in exactly
\* one of two ways: on success the new lesson is saved, becomes currentLesson
\* and the App is in VIEWING; on failure of content generation or of saving
\* the App returns to DASHBOARD, currentLesson is unchanged and the user is
\* alerted once. A failure of cover-image generation alone does not abort the
\* lesson.
C27_GenerationOutcomes ==
  [][ /\ (gen.pc = "idle" /\ gen'.pc /= "idle") =>
           (appState' = "GENERATING" /\ gen'.pc = "content")
      /\ (gen.pc /= "idle" /\ gen'.pc = "idle") =>
           \/ /\ gen.pc = "refresh"
              /\ appState' = "VIEWING"
              /\ currentLesson' /= NoLesson
              /\ ValueOf(currentLesson', heap') = ValueOf(gen.lesson, heap)
              /\ appAlerts' = appAlerts
           \/ /\ gen.pc \in {"content", "save"}
              /\ appState' = "DASHBOARD"
              /\ currentLesson' = currentLesson
              /\ appAlerts' = appAlerts + 1
              /\ db' = db
      /\ (gen.pc = "cover" /\ gen'.pc /= "cover") =>
           (/\ gen'.pc = "save"
            /\ gen'.lesson.id = gen.lesson.id
            /\ appAlerts' = appAlerts)
      /\ (gen.pc = "save" /\ gen'.pc = "refresh") =>
           (/\ gen.lesson.id \notin IdsOf(db)
            /\ \E k \in 1..Len(db') : db'[k] = ValueOf(gen.lesson, heap)
            /\ IdsOf(db') = IdsOf(db) \cup {gen.lesson.id})
      /\ (gen.pc /= "refresh" /\ gen'.pc = "refresh") => gen.pc = "save" ]_vars

\* a lesson whose cover-image generation failed (placeholder picture) was
\* saved and is shown
C27_Witness ==
  /\ appState = "VIEWING"
  /\ gen.pc = "idle"
  /\ currentLesson.id = clock
  /\ clock = Len(db)
  /\ clock >= 1
  /\ heap[currentLesson.images][0] = "picsum"
  /\ db[clock].images[0] = "picsum"
  /\ appAlerts = 0

\* the stored lessons as a set
Stored(s) == {s[k] : k \in 1..Len(s)}

\* C28: the lesson store holds at most one lesson per id: saveLessonToDB
\* inserts a lesson or replaces the stored lesson with the same id,
\* deleteLessonFromDB removes it, and getAllLessonsFromDB returns exactly the
\* stored lessons ordered by createdAt descending (newest first), after any
\* sequence of saves and deletes.
C28_StoreByIdNewestFirst ==
  /\ [](\A j, k \in 1..Len(db) : db[j].id = db[k].id => j = k)
  /\ [][ /\ (lastOp' = "save" /\ arg' \in StoreLessons) =>
              Stored(db') = {v \in Stored(db) : v.id /= arg'.id} \cup {arg'}
         /\ (lastOp' = "delete" /\ arg' \in StoreIds) =>
              Stored(db') = {v \in Stored(db) : v.id /= arg'}
         /\ lastOp' = "getAll" =>
              (/\ db' = db
               /\ Len(result') = Len(db)
               /\ Stored(result') = Stored(db)
               /\ \A j, k \in 1..Len(result') :
                    j < k => result'[j].createdAt >= result'[k].createdAt) ]_vars

\* the read returned the two stored lessons newest first, which is the
\* reverse of their key order
C28_Witness ==
  /\ lastOp = "getAll"
  /\ Len(db) = 2
  /\ db[1].id = 1
  /\ db[1].createdAt < db[2].createdAt
  /\ result = <<db[2], db[1]>>

\* C29 as stated: handleDeleteLesson deletes nothing unless the user
\* confirms; after a confirmed, successful delete of the lesson that is
\* currentLesson the App is in DASHBOARD with currentLesson null and the
\* lesson no longer appears in the lessons list; deleting any other lesson
\* leaves appState and currentLesson unchanged.
C29_DeleteAsStated ==
  [][ /\ (IdsOf(db) \ IdsOf(db') /= {}) => (del.pc = "delete" /\ del.answer)
      /\ (del.pc = "refresh" /\ del'.pc = "idle") =>
           IF del.closureId = del.id
           THEN /\ appState' = "DASHBOARD"
                /\ currentLesson' = NoLesson
                /\ del.id \notin IdsOf(lessons')
           ELSE /\ appState' = appState
                /\ currentLesson' = currentLesson ]_vars

\* C29 (amended): handleDeleteLesson deletes nothing unless the user
\* confirms; a confirmed, successful delete removes the lesson from the
\* store, and the lessons list becomes the store's content when the reload
\* that follows succeeds and is left as it was when that reload fails; when
\* the deleted lesson is the currentLesson handleDeleteLesson was called
\* with, the App is then in DASHBOARD with currentLesson null, and deleting
\* any other lesson leaves appState and currentLesson unchanged.
C29_DeleteFrame ==
  [][ /\ (IdsOf(db) \ IdsOf(db') /= {}) =>
           (/\ del.pc = "delete"
            /\ del.answer
            /\ IdsOf(db') = IdsOf(db) \ {del.id})
      /\ (del.pc = "delete" /\ del'.pc = "refresh") => del.id \notin IdsOf(db')
      /\ (del.pc = "delete" /\ del'.pc = "idle") =>
           (db' = db /\ appState' = appState /\ currentLesson' = currentLesson
            /\ lessons' = lessons)
      /\ (del.pc = "idle" /\ del' = del /\ ops' /= ops) => db' = db
      /\ (del.pc = "refresh" /\ del'.pc = "idle") =>
           /\ IF del.closureId = del.id
              THEN appState' = "DASHBOARD" /\ currentLesson' = NoLesson
              ELSE appState' = appState /\ currentLesson' = currentLesson
           /\ \/ [k \in 1..Len(lessons') |-> ValueOf(lessons'[k], heap')]
                   = GetAll(db)
              \/ [k \in 1..Len(lessons') |-> ValueOf(lessons'[k], heap')]
                   = [k \in 1..Len(lessons) |-> ValueOf(lessons[k], heap)] ]_vars

\* the only lesson, opened and left again, was deleted from the Dashboard
\* (the one handler call so far) and the list was reloaded without it
C29_Witness ==
  /\ appState = "DASHBOARD"
  /\ currentLesson = NoLesson
  /\ del.pc = "idle"
  /\ ops = 1
  /\ clock = 1
  /\ db = <<>>
  /\ lessons = <<>>
  /\ load = "done"
  /\ ~dbError

\* C26: handleGenerateImage always resets isGeneratingImage to false when it
\* finishes, and when generating the image or saving the updated lesson
\* fails, the lesson held in currentLesson (its images array included) is
\* unchanged from before the call.
C26_ImageFailureLeavesLesson ==
  [][ /\ (img.pc /= "idle" /\ img'.pc = "idle") => ~isGeneratingImage'
      /\ (img.pc \in {"image", "save"} /\ img'.pc = "idle") =>
           (/\ currentLesson' = currentLesson
            /\ (currentLesson /= NoLesson
                  /\ currentLesson.images = img.lesson.images)
                 => heap'[currentLesson'.images] = img.before) ]_vars

====
